---- MODULE Spec2Model ----
(***************************************************************************)
(* Model of the fritz.js client core: request construction                 *)
(* (FritzClient.request), middleware composition (FritzClient.use) and the *)
(* auth middleware (auth) with its closure-captured session.               *)
(*                                                                         *)
(* The client chain is client 0 (the base client, whose executeRequest is  *)
(* the transport), client k = client (k-1).use(middleware k).  Middleware  *)
(* AuthStage is auth(handler); every other stage is a pass-through         *)
(* middleware of the shape used in test/client/middleware.test.ts.         *)
(*                                                                         *)
(* JavaScript runs an async function synchronously up to its first         *)
(* pending await, so one action is one such synchronous run: the           *)
(* suspension points are the handler.login call, the handler.logout call,  *)
(* the transport call and the awaits of the dispose chain.                 *)
(***************************************************************************)
EXTENDS Integers, Sequences, FiniteSets, TLC

\* ------------------------------------------------------------------------
\* Bounds of the model
\* ------------------------------------------------------------------------
MaxCalls == 3
NumStages == 3
AuthStage == 2

\* ------------------------------------------------------------------------
\* Values
\* ------------------------------------------------------------------------
NoSession == "null"
NoMethod == "undefined"
UndefinedValue == "<undefined>"
SidNames == <<"sid1", "sid2", "sid3", "sid4", "sid5", "sid6">>
MwKeys == <<"testparam", "anotherparam", "thirdparam", "fourthparam", "fifthparam">>

Stages == 1..NumStages

\* handler.login returns a new SessionInfo object on every call
SidOf(n) == SidNames[n]

\* ------------------------------------------------------------------------
\* URLSearchParams: an ordered list of <<key, value>> pairs
\* ------------------------------------------------------------------------
SPHas(q, k) == \E i \in 1..Len(q) : q[i][1] = k

SPValues(q, k) == {q[i][2] : i \in {j \in 1..Len(q) : q[j][1] = k}}

\* get(): the value of the first pair named k
SPGet(q, k) == q[CHOOSE i \in 1..Len(q) : q[i][1] = k /\ \A j \in 1..(i - 1) : q[j][1] # k][2]

SPCount(q, k) == Cardinality({i \in 1..Len(q) : q[i][1] = k})

SPAppend(q, k, v) == Append(q, <<k, v>>)

RECURSIVE SPDelete(_, _)
SPDelete(q, k) ==
  IF q = << >> THEN << >>
  ELSE IF Head(q)[1] = k THEN SPDelete(Tail(q), k)
  ELSE <<Head(q)>> \o SPDelete(Tail(q), k)

SPFirst(q, k) == CHOOSE i \in 1..Len(q) : q[i][1] = k /\ \A j \in 1..(i - 1) : q[j][1] # k

\* set(): replace the value of the first pair named k and drop the others,
\* or append when there is none
SPSet(q, k, v) ==
  IF SPHas(q, k)
    THEN LET i == SPFirst(q, k)
         IN SubSeq(q, 1, i - 1) \o <<<<k, v>>>> \o SPDelete(SubSeq(q, i + 1, Len(q)), k)
    ELSE SPAppend(q, k, v)

\* String(value) as applied by the URLSearchParams constructor
ToStringValue(v) == IF v = UndefinedValue THEN "undefined" ELSE v

\* new URLSearchParams(payload as Record<string, string>)
RECURSIVE SPFromRecord(_)
SPFromRecord(fields) ==
  IF fields = << >> THEN << >>
  ELSE <<<<Head(fields)[1], ToStringValue(Head(fields)[2])>>>> \o SPFromRecord(Tail(fields))

\* ------------------------------------------------------------------------
\* FritzClient.request: request construction
\* ------------------------------------------------------------------------
NoPayload == [present |-> FALSE, fields |-> << >>]
NoBody == [present |-> FALSE, fields |-> << >>]

\* mutant: the descriptor's explicit method is ignored
RequestMethodPayloadOnly(endpoint, payload) ==
  IF payload.present THEN "POST" ELSE "GET"
RequestMethod(endpoint, payload) ==
  IF endpoint.method # NoMethod THEN endpoint.method
  ELSE IF payload.present THEN "POST" ELSE "GET"

RequestUrl(endpoint, payload) ==
  IF endpoint.method = "GET" /\ payload.present
    THEN endpoint.query \o SPFromRecord(payload.fields)
    ELSE endpoint.query

\* mutant: the payload is sent as the body whatever the method is
RequestBodyAnyMethod(endpoint, payload) ==
  IF payload.present
    THEN [present |-> TRUE, fields |-> SPFromRecord(payload.fields)]
    ELSE NoBody

RequestBody(endpoint, payload) ==
  IF endpoint.method # "GET" /\ payload.present
    THEN [present |-> TRUE, fields |-> SPFromRecord(payload.fields)]
    ELSE NoBody

BuildRequest(endpoint, payload) ==
  [query  |-> RequestUrl(endpoint, payload),
   method |-> RequestMethod(endpoint, payload),
   body   |-> RequestBody(endpoint, payload)]

\* ------------------------------------------------------------------------
\* State
\* ------------------------------------------------------------------------
VARIABLES
  session,    \* auth: the closure variable `session` (a sid or NoSession)
  sidCount,   \* number of SessionInfo objects handler.login has returned
  reqs,       \* the request() calls made so far, in call order
  disps,      \* the [Symbol.asyncDispose]() calls made so far, in call order
  loginLog,   \* the handler.login invocations, in call order
  logoutLog,  \* the handler.logout invocations, in call order
  order,      \* sequential use only: the calls in the order they were made
  base,       \* how the innermost client of the chain was made
  bIn,        \* request construction alone: the descriptor and payload
  bOut,       \* request construction alone: the request built from bIn
  cIn,        \* decoder selection alone: the Content-Type header, the host locale
  cOut,       \* decoder selection alone: the decoder rawData selects for cIn
  resp,       \* one FritzResponse: its schema and the Response it wraps
  ops,        \* the method calls made on that FritzResponse, in call order
  hIn,        \* handleChallenge alone: the challenge and the password
  hOut,       \* handleChallenge alone: what handleChallenge settles with
  dIn,        \* SmartHomeDeviceState alone: the device info and the getter read
  dOut,       \* SmartHomeDeviceState alone: what the getter returns
  lIn,        \* UserPassword.login alone: the credential and the router's replies
  lOut,       \* UserPassword.login alone: the exchanges sent and the outcome
  kIn,        \* SmartHomeDevice alone: the function bitmask, the method, its argument
  kOut        \* SmartHomeDevice alone: the requests issued and the outcome

clientVars == <<session, sidCount, reqs, disps, loginLog, logoutLog, order, base>>
buildVars == <<bIn, bOut>>
envelopeVars == <<cIn, cOut, resp, ops>>
challengeVars == <<hIn, hOut, lIn, lOut>>
deviceVars == <<dIn, dOut, kIn, kOut>>
vars == <<clientVars, buildVars, envelopeVars, challengeVars, deviceVars>>

\* ------------------------------------------------------------------------
\* Endpoint descriptors and payloads
\* ------------------------------------------------------------------------
\* RequestSid: { endpoint: "/login_sid.lua?version=2" }, no method, no payload
RequestSid == [method |-> NoMethod, query |-> <<<<"version", "2">>>>]
\* ValidateSid: the same endpoint with a request schema { sid }
ValidateSid == [method |-> NoMethod, query |-> <<<<"version", "2">>>>]
Payload(fields) == [present |-> TRUE, fields |-> fields]

\* the calls issued through the chain: a body-less GET and a POST whose
\* form body already has a sid field
Calls ==
  { [endpoint |-> RequestSid, payload |-> NoPayload],
    [endpoint |-> ValidateSid, payload |-> Payload(<<<<"sid", "old">>>>)] }

\* request() is called on the outermost client with every call, and on the
\* client auth was attached to (the one handed to login) with the GET
Issued ==
  {<<NumStages, call>> : call \in Calls}
    \cup {<<c, [endpoint |-> RequestSid, payload |-> NoPayload]>> : c \in {AuthStage - 1}}

\* ------------------------------------------------------------------------
\* Middleware
\* ------------------------------------------------------------------------
Kind(k) == IF k = AuthStage THEN "auth" ELSE "mw"

\* a pass-through middleware: request.url.searchParams.set(key, value)
MwRewrite(k, req) == [req EXCEPT !.query = SPSet(@, MwKeys[k], "testvalue")]

\* mutant: the sid goes into the URL only
AuthInjectUrlOnly(req, sess) == [req EXCEPT !.query = SPSet(@, "sid", sess)]

\* mutant: the sid is appended to what the request already has
AuthInjectAppending(req, sess) ==
  [req EXCEPT !.query = SPAppend(@, "sid", sess),
              !.body = IF @.present
                         THEN [@ EXCEPT !.fields = SPAppend(@, "sid", sess)]
                         ELSE @]

\* auth.request, lines 18-23: the sid goes into the URL and into a form body
AuthInject(req, sess) ==
  [req EXCEPT !.query = SPSet(@, "sid", sess),
              !.body = IF @.present
                         THEN [@ EXCEPT !.fields = SPSet(@, "sid", sess)]
                         ELSE @]

\* how the innermost client of a chain is made
Bases == {"FritzClient", "createTestClient"}

\* mutant: a test client that keeps the executeRequest of the class
ExecutorOfClass(made) == "fetch"

\* the innermost client's executeRequest: fetch (lines 85-87), replaced by
\* the handler in a client made by createTestClient (lines 127-129)
Executor(made) == IF made = "createTestClient" THEN "handler" ELSE "fetch"

\* One synchronous run of executeRequest from stage k downwards, up to the
\* first pending await: handler.login (phase "login") or the transport
\* (phase "transport").
RECURSIVE RunStage(_, _, _)
RECURSIVE AuthContinue(_, _)
AuthContinue(st, sess) ==
  IF sess = NoSession
    THEN [st EXCEPT !.phase = "failed", !.error = "TypeError"]
    ELSE LET injected == AuthInject(st.req, sess)
         IN RunStage(AuthStage - 1,
                     [st EXCEPT !.req = injected,
                                !.fwd = <<[query |-> injected.query, body |-> injected.body]>>],
                     sess)

\* mutant: auth.request without the `if (!session)` test
RunStageAlwaysLogin(k, st, sess) ==
  LET entered == [st EXCEPT !.trace = Append(@, <<"in", k>>)]
  IN IF k = 0 THEN [entered EXCEPT !.phase = "transport", !.executor = Executor(base)]
     ELSE IF Kind(k) = "auth"
       THEN [entered EXCEPT !.phase = "login", !.login = TRUE]
       ELSE RunStage(k - 1, [entered EXCEPT !.req = MwRewrite(k, @)], sess)

\* mutant: a request that finds a login pending waits for it instead of
\* logging in itself
RunStageJoiningLogin(k, st, sess) ==
  LET entered == [st EXCEPT !.trace = Append(@, <<"in", k>>)]
  IN IF k = 0 THEN [entered EXCEPT !.phase = "transport", !.executor = Executor(base)]
     ELSE IF Kind(k) = "auth"
       THEN IF sess = NoSession
              THEN IF \E i \in 1..Len(loginLog) : loginLog[i].result = "pending"
                     THEN [entered EXCEPT !.phase = "joined"]
                     ELSE [entered EXCEPT !.phase = "login", !.login = TRUE]
              ELSE AuthContinue(entered, sess)
       ELSE RunStage(k - 1, [entered EXCEPT !.req = MwRewrite(k, @)], sess)

RunStage(k, st, sess) ==
  LET entered == [st EXCEPT !.trace = Append(@, <<"in", k>>)]
  IN IF k = 0 THEN [entered EXCEPT !.phase = "transport", !.executor = Executor(base)]
     ELSE IF Kind(k) = "auth"
       THEN IF sess = NoSession
              THEN [entered EXCEPT !.phase = "login", !.login = TRUE]
              ELSE AuthContinue(entered, sess)
       ELSE RunStage(k - 1, [entered EXCEPT !.req = MwRewrite(k, @)], sess)

\* mutant: the response passes the outermost stage first
RECURSIVE UnwindOutermostFirst(_, _, _)
UnwindOutermostFirst(trace, k, top) ==
  IF k > top THEN trace ELSE UnwindOutermostFirst(Append(trace, <<"out", top>>), k, top - 1)

\* the stages a settled transport call returns (or throws) through
RECURSIVE Unwind(_, _, _)
Unwind(trace, k, top) ==
  IF k > top THEN trace ELSE Unwind(Append(trace, <<"out", k>>), k + 1, top)

NewRequest(c, call) ==
  [client |-> c,
   call   |-> call,
   req    |-> BuildRequest(call.endpoint, call.payload),
   phase  |-> "new",
   login  |-> FALSE,
   fwd    |-> << >>,
   trace  |-> << >>,
   executor |-> "none",
   status |-> 0,
   error  |-> "none"]

InFlight(r) == reqs[r].phase \in {"login", "transport"}
Settled(r) == reqs[r].phase \in {"done", "failed"}

\* ------------------------------------------------------------------------
\* Initial state: the chain has been composed, nothing has been called
\* ------------------------------------------------------------------------
NotBuilt == << >>

\* rawData has not selected a decoder
NotSelected == << >>

\* headers.get("content-type") of a response without that header
NoHeader == [present |-> FALSE, value |-> << >>]

\* no FritzResponse has been constructed
NoResponse == [present |-> FALSE]

\* handleChallenge has not settled
NotSettled == << >>

\* no getter of the device state has been read
NotRead == << >>

\* no exchange of the login has been answered; login has not been called
NoReply == [kind |-> "none", status |-> 0, body |-> "none"]
NotCalled == [pc |-> "idle", sent |-> << >>, result |-> << >>, error |-> "none"]

\* a device method called without an argument; no method has been called
NoArgument == [type |-> "undefined", number |-> << >>, hue |-> << >>, saturation |-> << >>]
NotInvoked == [pc |-> "idle", sent |-> << >>, error |-> "none"]

\* the composed chain before any call: auth's `let session = null`; the
\* innermost client is a test client, as in the tests
NothingCalled ==
  /\ session = NoSession
  /\ sidCount = 0
  /\ reqs = << >>
  /\ disps = << >>
  /\ loginLog = << >>
  /\ logoutLog = << >>
  /\ order = << >>

ClientInit ==
  /\ NothingCalled
  /\ base = "createTestClient"

\* the parts of the library a specification does not exercise
BuildIdle ==
  /\ bIn = [endpoint |-> RequestSid, payload |-> NoPayload]
  /\ bOut = NotBuilt

EnvelopeIdle ==
  /\ cIn = [header |-> NoHeader, media |-> << >>, locale |-> "en-US"]
  /\ cOut = NotSelected
  /\ resp = NoResponse
  /\ ops = << >>

\* UserPassword.login has not been called
LoginIdle ==
  /\ lIn = [username |-> "user", first |-> NoReply, second |-> NoReply]
  /\ lOut = NotCalled

ChallengeIdle ==
  /\ hIn = [challenge |-> << >>, password |-> << >>, host |-> "little"]
  /\ hOut = NotSettled
  /\ LoginIdle

\* no method of the device has been called
CommandIdle ==
  /\ kIn = [features |-> 0, method |-> "turnOn", argument |-> NoArgument]
  /\ kOut = NotInvoked

DeviceIdle ==
  /\ dIn = [getter |-> "level", info |-> [levelcontrol |-> [present |-> FALSE]]]
  /\ dOut = NotRead
  /\ CommandIdle

Init ==
  /\ ClientInit
  /\ BuildIdle
  /\ EnvelopeIdle
  /\ ChallengeIdle
  /\ DeviceIdle

\* ------------------------------------------------------------------------
\* client.request(endpoint, payload) on client c
\* ------------------------------------------------------------------------
\* mutant: use() installs the middleware on the receiver itself, so every
\* client of the chain runs the whole chain
RequestStartOnReceiver(c, call) ==
  /\ Len(reqs) + Len(disps) < MaxCalls
  /\ LET r == Len(reqs) + 1
         st == RunStage(NumStages, NewRequest(c, call), session)
     IN /\ reqs' = Append(reqs, st)
        /\ loginLog' = IF st.phase = "login"
                         THEN Append(loginLog, [req |-> r, client |-> AuthStage - 1,
                                                result |-> "pending"])
                         ELSE loginLog
  /\ UNCHANGED <<session, sidCount, disps, logoutLog, base, bIn, bOut, envelopeVars, challengeVars, deviceVars>>

\* FritzClient.request builds the request and calls executeRequest, which
\* runs the stages c, c-1, ... synchronously until something is pending.
\* (`order` is left to the specification: see Next and SeqNext.)
RequestStart(c, call) ==
  /\ Len(reqs) + Len(disps) < MaxCalls
  /\ LET r == Len(reqs) + 1
         st == RunStage(c, NewRequest(c, call), session)
     IN /\ reqs' = Append(reqs, st)
        /\ loginLog' = IF st.phase = "login"
                         THEN Append(loginLog, [req |-> r, client |-> AuthStage - 1,
                                                result |-> "pending"])
                         ELSE loginLog
  /\ UNCHANGED <<session, sidCount, disps, logoutLog, base, bIn, bOut, envelopeVars, challengeVars, deviceVars>>

LoginIndex(r) == CHOOSE i \in 1..Len(loginLog) : loginLog[i].req = r

\* handler.login(nextClient) resolves: `session = await ...`, then the
\* rest of auth.request runs in the same synchronous run
LoginResolve(r) ==
  /\ r \in 1..Len(reqs)
  /\ reqs[r].phase = "login"
  /\ sidCount' = sidCount + 1
  /\ session' = SidOf(sidCount')
  /\ reqs' = [reqs EXCEPT ![r] = AuthContinue(@, session')]
  /\ loginLog' = [loginLog EXCEPT ![LoginIndex(r)].result = session']
  /\ UNCHANGED <<disps, logoutLog, order, base, bIn, bOut, envelopeVars, challengeVars, deviceVars>>

\* mutant: a failed login is swallowed and the request goes on without a sid
LoginRejectSwallowed(r) ==
  /\ r \in 1..Len(reqs)
  /\ reqs[r].phase = "login"
  /\ reqs' = [reqs EXCEPT ![r] =
                RunStage(AuthStage - 1,
                         [@ EXCEPT !.fwd = <<[query |-> reqs[r].req.query, body |-> reqs[r].req.body]>>],
                         session)]
  /\ loginLog' = [loginLog EXCEPT ![LoginIndex(r)].result = "error"]
  /\ UNCHANGED <<session, sidCount, disps, logoutLog, order, base, bIn, bOut, envelopeVars, challengeVars, deviceVars>>

\* handler.login(nextClient) rejects: the await throws out of auth.request
LoginReject(r) ==
  /\ r \in 1..Len(reqs)
  /\ reqs[r].phase = "login"
  /\ reqs' = [reqs EXCEPT ![r].phase = "failed", ![r].error = "login",
                           ![r].trace = Unwind(@, AuthStage, reqs[r].client)]
  /\ loginLog' = [loginLog EXCEPT ![LoginIndex(r)].result = "error"]
  /\ UNCHANGED <<session, sidCount, disps, logoutLog, order, base, bIn, bOut, envelopeVars, challengeVars, deviceVars>>

\* mutant: a transport that failed is tried a second time
TransportSettleRetrying(r, ok) ==
  /\ r \in 1..Len(reqs)
  /\ reqs[r].phase = "transport"
  /\ reqs' = IF ~ok /\ Len(reqs[r].trace) <= reqs[r].client + 1
               THEN [reqs EXCEPT ![r].trace = Append(@, <<"in", 0>>)]
               ELSE [reqs EXCEPT ![r].phase = IF ok THEN "done" ELSE "failed",
                                 ![r].status = IF ok THEN 200 ELSE 0,
                                 ![r].error = IF ok THEN "none" ELSE "network",
                                 ![r].trace = Unwind(Append(@, <<"out", 0>>), 1, reqs[r].client)]
  /\ UNCHANGED <<session, sidCount, disps, loginLog, logoutLog, order, base, bIn, bOut, envelopeVars, challengeVars, deviceVars>>

\* the transport (fetch, or the test handler) settles: the response, or
\* the exception, passes back through every stage of the request's client
TransportSettle(r, ok) ==
  /\ r \in 1..Len(reqs)
  /\ reqs[r].phase = "transport"
  /\ reqs' = [reqs EXCEPT ![r].phase = IF ok THEN "done" ELSE "failed",
                           ![r].status = IF ok THEN 200 ELSE 0,
                           ![r].error = IF ok THEN "none" ELSE "network",
                           ![r].trace = Unwind(Append(@, <<"out", 0>>), 1, reqs[r].client)]
  /\ UNCHANGED <<session, sidCount, disps, loginLog, logoutLog, order, base, bIn, bOut, envelopeVars, challengeVars, deviceVars>>

\* the transport resolves with a response of a non-success status: it is
\* a response like any other to executeRequest and to every stage
TransportRespond(r, status) ==
  /\ r \in 1..Len(reqs)
  /\ reqs[r].phase = "transport"
  /\ reqs' = [reqs EXCEPT ![r].phase = "done",
                           ![r].status = status,
                           ![r].trace = Unwind(Append(@, <<"out", 0>>), 1, reqs[r].client)]
  /\ UNCHANGED <<session, sidCount, disps, loginLog, logoutLog, order, base, bIn, bOut, envelopeVars, challengeVars, deviceVars>>

\* ------------------------------------------------------------------------
\* client[Symbol.asyncDispose]() on client c
\* ------------------------------------------------------------------------
\* mutant: auth.dispose without the `if (session)` test
CallsLogoutWithoutSession(k, sess) == Kind(k) = "auth"

\* auth.dispose up to its await: `if (session) await handler.logout(...)`
CallsLogout(k, sess) == Kind(k) = "auth" /\ sess # NoSession

\* the dispose installed by use(): middleware.dispose?.(baseClient) is
\* called, and awaited
InvokeHook(dp, k, sess) ==
  [dp EXCEPT !.stage = k,
             !.hooks = Append(@, k),
             !.await = IF CallsLogout(k, sess) THEN "logout" ELSE "hook"]

\* the base client's own [Symbol.asyncDispose]: nothing to release
BaseDispose(dp) ==
  [dp EXCEPT !.stage = 0, !.hooks = Append(@, 0), !.await = "none", !.state = "done"]

\* mutant: originalDispose bound to the base client's dispose
DisposeClientBaseOnly(dp, k, sess) == BaseDispose(dp)

\* originalDispose(): the dispose of client k
DisposeClient(dp, k, sess) ==
  IF k = 0 THEN BaseDispose(dp) ELSE InvokeHook(dp, k, sess)

LogLogout(log, d, k, sess) ==
  IF k > 0 /\ CallsLogout(k, sess)
    THEN Append(log, [disp |-> d, client |-> k - 1, sid |-> sess])
    ELSE log

NewDispose(c) ==
  [client |-> c, stage |-> c, hooks |-> << >>, await |-> "none", state |-> "pending"]

\* mutant: a dispose that aborts the requests still in flight
DisposeStartAborting(c) ==
  /\ Len(reqs) + Len(disps) < MaxCalls
  /\ disps' = Append(disps, DisposeClient(NewDispose(c), c, session))
  /\ logoutLog' = LogLogout(logoutLog, Len(disps) + 1, c, session)
  /\ reqs' = [r \in 1..Len(reqs) |->
                IF InFlight(r) THEN [reqs[r] EXCEPT !.phase = "failed", !.error = "aborted"]
                ELSE reqs[r]]
  /\ UNCHANGED <<session, sidCount, loginLog, base, bIn, bOut, envelopeVars, challengeVars, deviceVars>>

DisposeStart(c) ==
  /\ Len(reqs) + Len(disps) < MaxCalls
  /\ disps' = Append(disps, DisposeClient(NewDispose(c), c, session))
  /\ logoutLog' = LogLogout(logoutLog, Len(disps) + 1, c, session)
  /\ UNCHANGED <<session, sidCount, reqs, loginLog, base, bIn, bOut, envelopeVars, challengeVars, deviceVars>>

\* mutant: auth.dispose without `session = null`
SessionAfterHookKept(dp, sess) == sess

\* auth.dispose after its await: `session = null` when logout was awaited
SessionAfterHook(dp, sess) == IF dp.await = "logout" THEN NoSession ELSE sess

\* the awaited hook of stage disps[d].stage resolved: auth.dispose clears
\* the session after its logout, then originalDispose() is called
HookResolve(d) ==
  /\ d \in 1..Len(disps)
  /\ disps[d].state = "pending"
  /\ session' = SessionAfterHook(disps[d], session)
  /\ disps' = [disps EXCEPT ![d] = DisposeClient(@, disps[d].stage - 1, session')]
  /\ logoutLog' = LogLogout(logoutLog, d, disps[d].stage - 1, session')
  /\ UNCHANGED <<sidCount, reqs, loginLog, order, base, bIn, bOut, envelopeVars, challengeVars, deviceVars>>

\* mutant: auth.dispose clears the session also when the logout failed
HookRejectClearing(d) ==
  /\ d \in 1..Len(disps)
  /\ disps[d].state = "pending"
  /\ disps[d].await = "logout" \/ Kind(disps[d].stage) = "mw"
  /\ disps' = [disps EXCEPT ![d].state = "failed", ![d].await = "none"]
  /\ session' = SessionAfterHook(disps[d], session)
  /\ UNCHANGED <<sidCount, reqs, loginLog, logoutLog, order, base, bIn, bOut, envelopeVars, challengeVars, deviceVars>>

\* the awaited hook threw (a pass-through middleware's dispose, or
\* handler.logout): the await rethrows and originalDispose() is not called
HookReject(d) ==
  /\ d \in 1..Len(disps)
  /\ disps[d].state = "pending"
  /\ disps[d].await = "logout" \/ Kind(disps[d].stage) = "mw"
  /\ disps' = [disps EXCEPT ![d].state = "failed", ![d].await = "none"]
  /\ UNCHANGED <<session, sidCount, reqs, loginLog, logoutLog, order, base, bIn, bOut, envelopeVars, challengeVars, deviceVars>>

\* ------------------------------------------------------------------------
\* Specifications
\* ------------------------------------------------------------------------
\* The clients the caller disposes: the outermost client of the chain, and
\* the client whose outermost middleware is auth
Disposed == {NumStages, AuthStage}

Next ==
  \/ \E i \in Issued : RequestStart(i[1], i[2]) /\ UNCHANGED order
  \/ \E r \in 1..MaxCalls : LoginResolve(r)
  \/ \E r \in 1..MaxCalls : LoginReject(r)
  \/ \E r \in 1..MaxCalls, ok \in BOOLEAN : TransportSettle(r, ok)
  \/ \E c \in Disposed : DisposeStart(c) /\ UNCHANGED order
  \/ \E d \in 1..MaxCalls : HookResolve(d)
  \/ \E d \in 1..MaxCalls : HookReject(d)

Spec == Init /\ [][Next]_vars

\* Sequential use: every call is awaited before the next call is made, so
\* the order of the calls is the order in time; `order` records it
Quiet ==
  /\ \A r \in 1..Len(reqs) : Settled(r)
  /\ \A d \in 1..Len(disps) : disps[d].state # "pending"

SeqNext ==
  \/ /\ Quiet
     /\ \E i \in Issued : RequestStart(i[1], i[2])
     /\ order' = Append(order, <<"request", Len(reqs) + 1>>)
  \/ \E r \in 1..MaxCalls : LoginResolve(r)
  \/ \E r \in 1..MaxCalls : LoginReject(r)
  \/ \E r \in 1..MaxCalls, ok \in BOOLEAN : TransportSettle(r, ok)
  \/ /\ Quiet
     /\ \E c \in Disposed : DisposeStart(c)
     /\ order' = Append(order, <<"dispose", Len(disps) + 1>>)
  \/ \E d \in 1..MaxCalls : HookResolve(d)
  \/ \E d \in 1..MaxCalls : HookReject(d)

SeqSpec == Init /\ [][SeqNext]_vars

\* Overlapping use with the order of the calls recorded: requests through
\* the whole chain and disposes of the outermost client, none awaited
\* before the next is made
RaceNext ==
  \/ /\ RequestStart(NumStages, [endpoint |-> RequestSid, payload |-> NoPayload])
     /\ order' = Append(order, <<"request", Len(reqs) + 1>>)
  \/ \E r \in 1..MaxCalls : LoginResolve(r)
  \/ \E r \in 1..MaxCalls : LoginReject(r)
  \/ \E r \in 1..MaxCalls, ok \in BOOLEAN : TransportSettle(r, ok)
  \/ /\ DisposeStart(NumStages)
     /\ order' = Append(order, <<"dispose", Len(disps) + 1>>)
  \/ \E d \in 1..MaxCalls : HookResolve(d)
  \/ \E d \in 1..MaxCalls : HookReject(d)

RaceSpec == Init /\ [][RaceNext]_vars

\* The transport alone: requests on the innermost client, made by the
\* constructor or by createTestClient, and on a client with one
\* pass-through middleware on it
NonSuccess == {403, 500}

TransportInit ==
  /\ NothingCalled
  /\ base \in Bases
  /\ BuildIdle
  /\ EnvelopeIdle
  /\ ChallengeIdle
  /\ DeviceIdle

TransportNext ==
  \/ \E c \in {0, AuthStage - 1}, call \in Calls : RequestStart(c, call) /\ UNCHANGED order
  \/ \E r \in 1..MaxCalls, ok \in BOOLEAN : TransportSettle(r, ok)
  \/ \E r \in 1..MaxCalls, status \in NonSuccess : TransportRespond(r, status)

TransportSpec == TransportInit /\ [][TransportNext]_vars

\* Request construction alone: FritzClient.request applied to a descriptor
\* and a payload
Methods == {NoMethod, "GET", "POST"}

Paths == {<< >>, <<<<"version", "2">>>>, <<<<"sid", "old">>, <<"version", "2">>>>}

Payloads ==
  { NoPayload,
    Payload(<< >>),
    Payload(<<<<"sid", "old">>>>),
    Payload(<<<<"username", "user">>, <<"response", "resp">>>>),
    Payload(<<<<"switchcmd", "getdevicelistinfos">>, <<"sid", UndefinedValue>>>>),
    Payload(<<<<"version", "3">>, <<"logout", "1">>>>) }

BuildInit ==
  /\ ClientInit
  /\ EnvelopeIdle
  /\ ChallengeIdle
  /\ DeviceIdle
  /\ bIn \in [endpoint : [method : Methods, query : Paths], payload : Payloads]
  /\ bOut = NotBuilt

Build ==
  /\ bOut = NotBuilt
  /\ bOut' = <<BuildRequest(bIn.endpoint, bIn.payload)>>
  /\ UNCHANGED <<session, sidCount, reqs, disps, loginLog, logoutLog, order, base, bIn, envelopeVars, challengeVars, deviceVars>>

BuildNext == Build

BuildSpec == BuildInit /\ [][BuildNext]_vars

\* auth.request with a session applied to the request request() built: the
\* endpoint path or the payload may have supplied a sid already
InjectInit ==
  /\ \E n \in 1..2 : session = SidOf(n) /\ sidCount = n
  /\ reqs = << >>
  /\ disps = << >>
  /\ loginLog = << >>
  /\ logoutLog = << >>
  /\ order = << >>
  /\ base = "createTestClient"
  /\ EnvelopeIdle
  /\ ChallengeIdle
  /\ DeviceIdle
  /\ bIn \in [endpoint : [method : Methods, query : Paths], payload : Payloads]
  /\ bOut = NotBuilt

Inject ==
  /\ Len(bOut) = 1
  /\ bOut' = Append(bOut, AuthInject(bOut[1], session))
  /\ UNCHANGED <<clientVars, bIn, envelopeVars, challengeVars, deviceVars>>

InjectNext == Build \/ Inject

InjectSpec == InjectInit /\ [][InjectNext]_vars

\* ------------------------------------------------------------------------
\* FritzResponse.rawData: the decoder selected from the Content-Type header
\* ------------------------------------------------------------------------
\* Strings are sequences of characters.
LowerLetters == <<"a", "b", "c", "d", "e", "f", "g", "h", "i", "j", "k", "l", "m", "n", "o", "p", "q", "r", "s", "t", "u", "v", "w", "x", "y", "z">>
UpperLetters == <<"A", "B", "C", "D", "E", "F", "G", "H", "I", "J", "K", "L", "M", "N", "O", "P", "Q", "R", "S", "T", "U", "V", "W", "X", "Y", "Z">>

IsUpper(c) == \E i \in 1..Len(UpperLetters) : UpperLetters[i] = c
IsLower(c) == \E i \in 1..Len(LowerLetters) : LowerLetters[i] = c
LetterIndex(letters, c) == CHOOSE i \in 1..Len(letters) : letters[i] = c

\* the host's default locale, which toLocaleLowerCase() without an argument
\* uses
Locales == {"en-US", "de-DE", "tr-TR"}

\* the locales whose lower-casing maps "I" to the dotless i (U+0131)
TurkicLocales == {"tr-TR"}
DotlessI == "U+0131"

\* String.prototype.toLocaleLowerCase, one character
LocaleLowerChar(c, locale) ==
  IF ~IsUpper(c) THEN c
  ELSE IF c = "I" /\ locale \in TurkicLocales THEN DotlessI
  ELSE LowerLetters[LetterIndex(UpperLetters, c)]

ToLocaleLowerCase(s, locale) == [i \in 1..Len(s) |-> LocaleLowerChar(s[i], locale)]

\* String.prototype.toUpperCase on ASCII text
ToUpperChar(c) == IF IsLower(c) THEN UpperLetters[LetterIndex(LowerLetters, c)] ELSE c
ToUpperCase(s) == [i \in 1..Len(s) |-> ToUpperChar(s[i])]

\* split(";")[0]: the text before the first ";"
SplitFirst(s, sep) ==
  IF \E i \in 1..Len(s) : s[i] = sep
    THEN SubSeq(s, 1, (CHOOSE i \in 1..Len(s) : s[i] = sep /\ \A j \in 1..(i - 1) : s[j] # sep) - 1)
    ELSE s

WhiteSpace == {" ", "\t"}

\* String.prototype.trim
RECURSIVE TrimStart(_)
TrimStart(s) ==
  IF s # << >> /\ Head(s) \in WhiteSpace THEN TrimStart(Tail(s)) ELSE s

RECURSIVE TrimEnd(_)
TrimEnd(s) ==
  IF s # << >> /\ s[Len(s)] \in WhiteSpace THEN TrimEnd(SubSeq(s, 1, Len(s) - 1)) ELSE s

Trim(s) == TrimEnd(TrimStart(s))

TextJson == <<"t", "e", "x", "t", "/", "j", "s", "o", "n">>
ApplicationJson == <<"a", "p", "p", "l", "i", "c", "a", "t", "i", "o", "n", "/", "j", "s", "o", "n">>
TextXml == <<"t", "e", "x", "t", "/", "x", "m", "l">>
ApplicationXml == <<"a", "p", "p", "l", "i", "c", "a", "t", "i", "o", "n", "/", "x", "m", "l">>

\* rawData, lines 228-232: headers.get("content-type")?.split(";")[0]
\* .trim().toLocaleLowerCase(); undefined when the header is absent
ContentType(header, locale) ==
  IF header.present
    THEN ToLocaleLowerCase(Trim(SplitFirst(header.value, ";")), locale)
    ELSE <<UndefinedValue>>

\* rawData, lines 234-246: the switch over the content type
SelectDecoder(header, locale) ==
  LET contentType == ContentType(header, locale)
  IN IF contentType \in {TextJson, ApplicationJson} THEN "json"
     ELSE IF contentType \in {TextXml, ApplicationXml} THEN "xml"
     ELSE "text"

\* Decoder selection alone: rawData's header handling applied to a header
\* written in several cases, with and without parameters
MediaTypes ==
  { TextJson, ApplicationJson, TextXml, ApplicationXml,
    <<"t", "e", "x", "t", "/", "p", "l", "a", "i", "n">>, <<"t", "e", "x", "t", "/", "h", "t", "m", "l">>, <<"a", "p", "p", "l", "i", "c", "a", "t", "i", "o", "n", "/", "j", "s", "o", "n", "x">>, <<"a", "p", "p", "l", "i", "c", "a", "t", "i", "o", "n", "/", "x", "h", "t", "m", "l", "+", "x", "m", "l">> }

Parameters == { << >>, <<";", " ", "c", "h", "a", "r", "s", "e", "t", "=", "u", "t", "f", "-", "8">>, <<" ", ";", "c", "h", "a", "r", "s", "e", "t", "=", "u", "t", "f", "-", "8">> }

\* the first letter of the type and of the subtype in upper case
Capitalize(s) ==
  [i \in 1..Len(s) |-> IF i = 1 \/ (i > 1 /\ s[i - 1] = "/") THEN ToUpperChar(s[i]) ELSE s[i]]

HeaderValues(media) ==
  UNION { { media \o p, ToUpperCase(media \o p), Capitalize(media \o p) } : p \in Parameters }

HeaderInputs ==
  { [header |-> [present |-> TRUE, value |-> h], media |-> m] :
      <<m, h>> \in UNION { { <<mt, hv>> : hv \in HeaderValues(mt) } : mt \in MediaTypes } }
    \cup { [header |-> NoHeader, media |-> << >>] }

SelectInit ==
  /\ ClientInit
  /\ BuildIdle
  /\ ChallengeIdle
  /\ DeviceIdle
  /\ \E i \in HeaderInputs, l \in Locales :
       cIn = [header |-> i.header, media |-> i.media, locale |-> l]
  /\ cOut = NotSelected
  /\ resp = NoResponse
  /\ ops = << >>

Select ==
  /\ cOut = NotSelected
  /\ cOut' = <<SelectDecoder(cIn.header, cIn.locale)>>
  /\ UNCHANGED <<clientVars, buildVars, challengeVars, deviceVars, cIn, resp, ops>>

SelectNext == Select

SelectSpec == SelectInit /\ [][SelectNext]_vars

\* ------------------------------------------------------------------------
\* FritzResponse: one envelope around one Response
\* ------------------------------------------------------------------------
MaxOps == 3
MaxDecodeOps == 2

\* the host locale the envelope runs under
EnvelopeLocale == "en-US"

\* response bodies: a JSON document, an XML document, text that is neither
JsonText == "{\"sid\":\"0000000000000000\"}"
XmlText == "<test>data</test>"
PlainText == "plain text"
\* text() of a response whose body is null
EmptyText == ""

BodyTexts == {JsonText, XmlText, PlainText}

\* status lines; Response.ok is true for the statuses 200..299
StatusLines ==
  { [status |-> 200, statusText |-> "OK"],
    [status |-> 403, statusText |-> "Forbidden"] }

ResponseOk(r) == r.status >= 200 /\ r.status <= 299

\* response schemas: v.any(), v.string(), v.object(...)
Schemas == {"any", "string", "object"}

\* Content-Type headers of the wrapped responses
EnvelopeHeaders ==
  { NoHeader,
    [present |-> TRUE, value |-> ApplicationJson],
    [present |-> TRUE, value |-> ToUpperCase(TextXml) \o <<";", " ">> \o ToUpperCase(<<"c", "h", "a", "r", "s", "e", "t", "=", "u", "t", "f", "-", "8">>)] }

\* what a settled promise carries
Value(type, from, text) == [kind |-> "value", type |-> type, from |-> from, text |-> text]
Undefined == [kind |-> "value", type |-> "undefined", from |-> "none", text |-> EmptyText]
Thrown(name, message, props) ==
  [kind |-> "error", name |-> name, message |-> message, props |-> props]
NoResult == [kind |-> "none"]

\* the errors of the platform and of valibot
BodyUsedError == Thrown("TypeError", <<"Body already consumed">>, << >>)
JsonSyntaxError == Thrown("SyntaxError", <<"Unexpected token">>, << >>)
XmlSyntaxError == Thrown("SyntaxError", <<"Malformed XML">>, << >>)
ReadError == Thrown("TypeError", <<"error reading a body from connection">>, << >>)
LockedError == Thrown("TypeError", <<"Cannot cancel a locked ReadableStream">>, << >>)
ValiError == Thrown("ValiError", <<"Invalid type">>, << >>)

\* new FritzError(message, options): Error's constructor takes the message
\* and installs options.cause; the constructor assigns name and nothing else
FritzError(message, options) ==
  Thrown("FritzError", message, <<<<"cause", options.cause>>>>)

\* throwOnError, lines 205-213
RequestFailed(r, data) ==
  FritzError(<<"Request failed with status ", r.status>>,
             [cause |-> UndefinedValue, status |-> r.status,
              statusText |-> r.statusText, data |-> data])

\* response.json(): JSON.parse of the body text
JsonParse(text) ==
  IF text = JsonText THEN Value("object", "json", text) ELSE JsonSyntaxError

\* parseXml(await response.text()); what the parser makes of text that is
\* not an XML document is the parser's choice (tolerant)
XmlParse(text, tolerant) ==
  IF text = XmlText \/ tolerant THEN Value("object", "xml", text) ELSE XmlSyntaxError

\* the decoders of rawData, rawJson and rawText
Decode(decoder, text, tolerant) ==
  IF decoder = "json" THEN JsonParse(text)
  ELSE IF decoder = "xml" THEN XmlParse(text, tolerant)
  ELSE Value("string", "text", text)

Accepts(schema, value) ==
  \/ schema = "any"
  \/ schema = value.type

\* mutant: data() returns the decoded value without validating it
ParseUnchecked(schema, value) == value

\* v.parse(this.schema, data)
Parse(schema, value) == IF Accepts(schema, value) THEN value ELSE ValiError

\* a body that is disturbed or locked cannot be read (again)
Unusable(body) == body.exists /\ (body.locked \/ body.disturbed)

NewCall(op, throwOnError) ==
  [op |-> op, throwOnError |-> throwOnError, phase |-> "new",
   decoder |-> "none", forError |-> FALSE, result |-> NoResult]

SettleWith(call, result) ==
  [call EXCEPT !.phase = IF result.kind = "error" THEN "failed" ELSE "done",
               !.result = result]

\* mutant: response.json() / response.text() read a used body again
BeginReadAgain(call, decoder, forError, r) ==
  LET c == [call EXCEPT !.decoder = decoder, !.forError = forError, !.phase = "read"]
  IN IF ~r.body.exists THEN [call |-> c, resp |-> r]
     ELSE [call |-> c,
           resp |-> [r EXCEPT !.body.locked = TRUE, !.body.disturbed = TRUE,
                              !.consumed = @ + 1]]

\* response.json() / response.text() up to the pending read: a used or
\* locked body rejects, a null body reads as the empty text, otherwise the
\* stream is locked and its bytes are read
BeginRead(call, decoder, forError, r) ==
  LET c == [call EXCEPT !.decoder = decoder, !.forError = forError]
  IN IF Unusable(r.body) THEN [call |-> SettleWith(c, BodyUsedError), resp |-> r]
     ELSE IF ~r.body.exists THEN [call |-> [c EXCEPT !.phase = "read"], resp |-> r]
     ELSE [call |-> [c EXCEPT !.phase = "read"],
           resp |-> [r EXCEPT !.body.locked = TRUE, !.body.disturbed = TRUE,
                              !.consumed = @ + 1]]

\* the decoder a method reads the body with
OpDecoder(op, r) ==
  IF op = "rawJson" THEN "json"
  ELSE IF op = "rawText" THEN "text"
  ELSE SelectDecoder(r.header, EnvelopeLocale)

\* mutant: a second cancel runs the underlying source's cancel again
CancelEveryTime(call, r) ==
  IF r.body.locked THEN [call |-> SettleWith(call, LockedError), resp |-> r]
  ELSE [call |-> [call EXCEPT !.phase = "cancel"],
        resp |-> [r EXCEPT !.body.disturbed = TRUE, !.body.state = "closed",
                           !.cancelCalls = @ + 1, !.sourceCancels = @ + 1]]

\* body.cancel(): rejects on a locked stream; on a closed stream it does
\* nothing, on an errored stream it rejects with the stored error; otherwise
\* it closes the stream and cancels the underlying source
Cancel(call, r) ==
  IF r.body.locked THEN [call |-> SettleWith(call, LockedError), resp |-> r]
  ELSE IF r.body.state = "closed"
    THEN [call |-> [call EXCEPT !.phase = "cancel"],
          resp |-> [r EXCEPT !.body.disturbed = TRUE, !.cancelCalls = @ + 1]]
  ELSE IF r.body.state = "errored"
    THEN [call |-> SettleWith(call, ReadError),
          resp |-> [r EXCEPT !.body.disturbed = TRUE, !.cancelCalls = @ + 1]]
  ELSE [call |-> [call EXCEPT !.phase = "cancel"],
        resp |-> [r EXCEPT !.body.disturbed = TRUE, !.body.state = "closed",
                           !.cancelCalls = @ + 1, !.sourceCancels = @ + 1]]

\* mutant: a dispose that does not test body.locked
DisposeBodyUnlessNull(call, r) ==
  IF ~r.body.exists THEN [call |-> SettleWith(call, Undefined), resp |-> r]
  ELSE Cancel(call, r)

\* [Symbol.asyncDispose], lines 284-295, up to `await body.cancel()`
DisposeBody(call, r) ==
  IF ~r.body.exists THEN [call |-> SettleWith(call, Undefined), resp |-> r]
  ELSE IF r.body.locked THEN [call |-> SettleWith(call, Undefined), resp |-> r]
  ELSE Cancel(call, r)

\* throwOnError, lines 200-204, up to the pending read of the body
EnterThrowOnError(call, r) ==
  IF ResponseOk(r) THEN [call |-> SettleWith(call, Undefined), resp |-> r]
  ELSE BeginRead(call, SelectDecoder(r.header, EnvelopeLocale), TRUE, r)

\* mutant: the readers check the status whatever options.throwOnError says
EnterIgnoringOption(call, r) ==
  IF call.op = "dispose" THEN DisposeBody(call, r)
  ELSE IF call.op = "throwOnError" THEN EnterThrowOnError(call, r)
  ELSE IF ResponseOk(r)
    THEN [call |-> [call EXCEPT !.phase = "check"], resp |-> r]
    ELSE EnterThrowOnError(call, r)

\* a method call up to its first pending await
Enter(call, r) ==
  IF call.op = "dispose" THEN DisposeBody(call, r)
  ELSE IF call.op = "throwOnError" THEN EnterThrowOnError(call, r)
  ELSE IF call.throwOnError
    THEN IF ResponseOk(r)
           THEN [call |-> [call EXCEPT !.phase = "check"], resp |-> r]
           ELSE EnterThrowOnError(call, r)
    ELSE BeginRead(call, OpDecoder(call.op, r), FALSE, r)

\* what a method makes of the decoded body
Finish(call, r, decoded) ==
  IF decoded.kind = "error" THEN SettleWith(call, decoded)
  ELSE IF call.forError THEN SettleWith(call, RequestFailed(r, decoded))
  ELSE IF call.op = "data" THEN SettleWith(call, Parse(r.schema, decoded))
  ELSE SettleWith(call, decoded)

\* the method calls of a FritzResponse: throwOnError(), dispose, and the
\* readers with options.throwOnError absent (true) or false
EnvelopeCalls ==
  {<<"throwOnError", TRUE>>, <<"dispose", TRUE>>}
    \cup ({"rawData", "data", "rawJson", "rawText"} \X BOOLEAN)

NewBody(exists, claimed) ==
  [exists |-> exists, locked |-> claimed, disturbed |-> FALSE, state |-> "readable"]

\* new FritzResponse(schema, response)
NewResponse(schema, line, header, text, body) ==
  [present |-> TRUE, schema |-> schema, status |-> line.status,
   statusText |-> line.statusText, header |-> header, text |-> text,
   claimed |-> body.locked, body |-> body,
   consumed |-> 0, cancelCalls |-> 0, sourceCancels |-> 0]

Bodies ==
  { <<EmptyText, NewBody(FALSE, FALSE)>> }
    \cup { <<t, NewBody(TRUE, c)>> : <<t, c>> \in BodyTexts \X BOOLEAN }

\* Sequences of calls on one envelope: the body is plain text without a
\* Content-Type, so that rawJson fails to parse it and the others succeed
EnvelopeInit ==
  /\ ClientInit
  /\ BuildIdle
  /\ ChallengeIdle
  /\ DeviceIdle
  /\ cIn = [header |-> NoHeader, media |-> << >>, locale |-> EnvelopeLocale]
  /\ cOut = NotSelected
  /\ \E line \in StatusLines, b \in {c \in Bodies : c[1] \in {EmptyText, PlainText}} :
       resp = NewResponse("string", line, NoHeader, b[1], b[2])
  /\ ops = << >>

\* a method of the envelope is called
Call(op, throwOnError) ==
  /\ resp.present
  /\ Len(ops) < MaxOps
  /\ LET e == Enter(NewCall(op, throwOnError), resp)
     IN /\ ops' = Append(ops, e.call)
        /\ resp' = e.resp
  /\ UNCHANGED <<clientVars, buildVars, challengeVars, deviceVars, cIn, cOut>>

\* `await this.throwOnError()` on an ok response resumes: the body is read
AfterCheck(i) ==
  /\ i \in 1..Len(ops)
  /\ ops[i].phase = "check"
  /\ LET e == BeginRead(ops[i], OpDecoder(ops[i].op, resp), FALSE, resp)
     IN /\ ops' = [ops EXCEPT ![i] = e.call]
        /\ resp' = e.resp
  /\ UNCHANGED <<clientVars, buildVars, challengeVars, deviceVars, cIn, cOut>>

\* the read of the body completes: the text is decoded and the method
\* settles
ReadComplete(i, tolerant) ==
  /\ i \in 1..Len(ops)
  /\ ops[i].phase = "read"
  /\ LET text == IF resp.body.exists THEN resp.text ELSE EmptyText
     IN ops' = [ops EXCEPT ![i] = Finish(@, resp, Decode(@.decoder, text, tolerant))]
  /\ resp' = IF resp.body.exists THEN [resp EXCEPT !.body.state = "closed"] ELSE resp
  /\ UNCHANGED <<clientVars, buildVars, challengeVars, deviceVars, cIn, cOut>>

\* the connection fails while the body is read
ReadFail(i) ==
  /\ i \in 1..Len(ops)
  /\ ops[i].phase = "read"
  /\ resp.body.exists
  /\ ops' = [ops EXCEPT ![i] = SettleWith(@, ReadError)]
  /\ resp' = [resp EXCEPT !.body.state = "errored"]
  /\ UNCHANGED <<clientVars, buildVars, challengeVars, deviceVars, cIn, cOut>>

\* `await body.cancel()` resumes
CancelDone(i) ==
  /\ i \in 1..Len(ops)
  /\ ops[i].phase = "cancel"
  /\ ops' = [ops EXCEPT ![i] = SettleWith(@, Undefined)]
  /\ UNCHANGED <<clientVars, buildVars, challengeVars, deviceVars, cIn, cOut, resp>>

EnvelopeNext ==
  \/ \E c \in EnvelopeCalls : Call(c[1], c[2])
  \/ \E i \in 1..MaxOps : AfterCheck(i)
  \/ \E i \in 1..MaxOps, tolerant \in BOOLEAN : ReadComplete(i, tolerant)
  \/ \E i \in 1..MaxOps : ReadFail(i)
  \/ \E i \in 1..MaxOps : CancelDone(i)

EnvelopeSpec == EnvelopeInit /\ [][EnvelopeNext]_vars

\* Decoding and validation: every schema, status, header and body, and at
\* most MaxDecodeOps calls on the envelope
DecodeInit ==
  /\ ClientInit
  /\ BuildIdle
  /\ ChallengeIdle
  /\ DeviceIdle
  /\ cIn = [header |-> NoHeader, media |-> << >>, locale |-> EnvelopeLocale]
  /\ cOut = NotSelected
  /\ \E schema \in Schemas, line \in StatusLines, header \in EnvelopeHeaders, b \in Bodies :
       resp = NewResponse(schema, line, header, b[1], b[2])
  /\ ops = << >>

DecodeNext ==
  \/ /\ Len(ops) < MaxDecodeOps
     /\ \E c \in EnvelopeCalls : Call(c[1], c[2])
  \/ \E i \in 1..MaxOps : AfterCheck(i)
  \/ \E i \in 1..MaxOps, tolerant \in BOOLEAN : ReadComplete(i, tolerant)
  \/ \E i \in 1..MaxOps : ReadFail(i)
  \/ \E i \in 1..MaxOps : CancelDone(i)

DecodeSpec == DecodeInit /\ [][DecodeNext]_vars

\* ------------------------------------------------------------------------
\* UserPassword.logout: the logout exchange and its envelope
\* ------------------------------------------------------------------------
\* ops[1] is the logout call itself, ops[2] the response.throwOnError()
\* it makes and ops[3] the disposal of the envelope at the end of the
\* `await using` block.
FetchError == Thrown("TypeError", <<"error sending request">>, << >>)

\* the responses of the router to the logout exchange
LogoutResponses ==
  { NewResponse("object", line, header, b[1], b[2]) :
      line \in StatusLines \cup {[status |-> 500, statusText |-> "Internal Server Error"]},
      header \in EnvelopeHeaders,
      b \in {c \in Bodies : ~c[2].locked} }

LogoutInit ==
  /\ ClientInit
  /\ BuildIdle
  /\ ChallengeIdle
  /\ DeviceIdle
  /\ cIn = [header |-> NoHeader, media |-> << >>, locale |-> EnvelopeLocale]
  /\ cOut = NotSelected
  /\ resp = NoResponse
  /\ ops = << >>

\* logout, lines 47-51: client.request(LogoutSid, { logout: "1", sid }) is
\* called and awaited
LogoutStart ==
  /\ ops = << >>
  /\ ops' = <<[NewCall("logout", TRUE) EXCEPT !.phase = "request"]>>
  /\ UNCHANGED <<clientVars, buildVars, challengeVars, deviceVars, cIn, cOut, resp>>

\* the request fails: the await throws out of logout
LogoutRequestFails ==
  /\ Len(ops) = 1
  /\ ops[1].phase = "request"
  /\ ops' = <<SettleWith(ops[1], FetchError)>>
  /\ UNCHANGED <<clientVars, buildVars, challengeVars, deviceVars, cIn, cOut, resp>>

\* the request resolves with an envelope (lines 48-52): logout calls
\* response.throwOnError() and drops the promise it returns, then leaves
\* the block, which calls the envelope's [Symbol.asyncDispose]() and
\* awaits it
LogoutResponds(r) ==
  /\ Len(ops) = 1
  /\ ops[1].phase = "request"
  /\ LET check == Enter(NewCall("throwOnError", TRUE), r)
         dispose == Enter(NewCall("dispose", TRUE), check.resp)
     IN /\ ops' = <<[ops[1] EXCEPT !.phase = "dispose"], check.call, dispose.call>>
        /\ resp' = dispose.resp
  /\ UNCHANGED <<clientVars, buildVars, challengeVars, deviceVars, cIn, cOut>>

\* the awaited disposal has settled: logout returns, or throws what the
\* disposal threw
LogoutReturn ==
  /\ Len(ops) = 3
  /\ ops[1].phase = "dispose"
  /\ ops[3].phase \in {"done", "failed"}
  /\ ops' = [ops EXCEPT ![1] = SettleWith(@, ops[3].result)]
  /\ UNCHANGED <<clientVars, buildVars, challengeVars, deviceVars, cIn, cOut, resp>>

LogoutNext ==
  \/ LogoutStart
  \/ LogoutRequestFails
  \/ \E r \in LogoutResponses : LogoutResponds(r)
  \/ \E i \in 1..MaxOps, tolerant \in BOOLEAN : ReadComplete(i, tolerant)
  \/ \E i \in 1..MaxOps : ReadFail(i)
  \/ \E i \in 1..MaxOps : CancelDone(i)
  \/ LogoutReturn

LogoutSpec == LogoutInit /\ [][LogoutNext]_vars

\* ------------------------------------------------------------------------
\* UserPassword: handleChallenge
\* ------------------------------------------------------------------------
DecimalDigits == <<"0", "1", "2", "3", "4", "5", "6", "7", "8", "9">>
HexDigits == <<"0", "1", "2", "3", "4", "5", "6", "7", "8", "9", "a", "b", "c", "d", "e", "f">>
HexDigitsUpper == <<"0", "1", "2", "3", "4", "5", "6", "7", "8", "9", "A", "B", "C", "D", "E", "F">>

IndexIn(digits, c) == CHOOSE i \in 1..Len(digits) : digits[i] = c
IsIn(digits, c) == \E i \in 1..Len(digits) : digits[i] = c

IsHexChar(c) == IsIn(HexDigits, c) \/ IsIn(HexDigitsUpper, c)
HexValue(c) == IF IsIn(HexDigits, c) THEN IndexIn(HexDigits, c) - 1 ELSE IndexIn(HexDigitsUpper, c) - 1

\* a value that may be undefined (a destructured element past the end)
Defined(text) == [defined |-> TRUE, text |-> text]
UndefinedField == [defined |-> FALSE, text |-> << >>]

\* String.prototype.startsWith
StartsWith(s, prefix) ==
  /\ Len(s) >= Len(prefix)
  /\ SubSeq(s, 1, Len(prefix)) = prefix

\* String.prototype.split(sep) for a one-character separator
RECURSIVE Split(_, _)
Split(s, sep) ==
  IF \E i \in 1..Len(s) : s[i] = sep
    THEN LET i == CHOOSE k \in 1..Len(s) : s[k] = sep /\ \A j \in 1..(k - 1) : s[j] # sep
         IN <<SubSeq(s, 1, i - 1)>> \o Split(SubSeq(s, i + 1, Len(s)), sep)
    ELSE <<s>>

\* const [_, iter1, salt1, iter2, salt2] = ...: element i, or undefined
Element(fields, i) == IF i <= Len(fields) THEN Defined(fields[i]) ELSE UndefinedField

\* the bytes of an even-length hex string
RECURSIVE HexBytes(_)
HexBytes(s) ==
  IF s = << >> THEN << >>
  ELSE <<16 * HexValue(s[1]) + HexValue(s[2])>> \o HexBytes(SubSeq(s, 3, Len(s)))

Failure(path, name) == [path |-> path, kind |-> "error", name |-> name, text |-> << >>]
Response(path, text) == [path |-> path, kind |-> "value", name |-> "none", text |-> text]

\* mutant: a decoder that drops what is not a pair of hex digits
RECURSIVE HexBytesLenient(_)
HexBytesLenient(s) ==
  IF Len(s) < 2 THEN << >>
  ELSE IF IsHexChar(s[1]) /\ IsHexChar(s[2])
    THEN <<16 * HexValue(s[1]) + HexValue(s[2])>> \o HexBytesLenient(SubSeq(s, 3, Len(s)))
    ELSE HexBytesLenient(SubSeq(s, 3, Len(s)))

FromHexLenient(field) ==
  IF ~field.defined THEN [ok |-> FALSE, name |-> "TypeError", bytes |-> << >>]
  ELSE [ok |-> TRUE, name |-> "none", bytes |-> HexBytesLenient(field.text)]

\* Uint8Array.fromHex: a TypeError for a value that is not a string, a
\* SyntaxError for an odd length or a character that is not a hex digit
FromHex(field) ==
  IF ~field.defined THEN [ok |-> FALSE, name |-> "TypeError", bytes |-> << >>]
  ELSE IF Len(field.text) % 2 = 1 \/ \E i \in 1..Len(field.text) : ~IsHexChar(field.text[i])
    THEN [ok |-> FALSE, name |-> "SyntaxError", bytes |-> << >>]
  ELSE [ok |-> TRUE, name |-> "none", bytes |-> HexBytes(field.text)]

\* the leading decimal digits of a string
RECURSIVE LeadingDigits(_)
LeadingDigits(s) ==
  IF s # << >> /\ IsIn(DecimalDigits, Head(s)) THEN <<Head(s)>> \o LeadingDigits(Tail(s)) ELSE << >>

RECURSIVE DecimalValue(_)
DecimalValue(digits) ==
  IF digits = << >> THEN 0
  ELSE 10 * DecimalValue(SubSeq(digits, 1, Len(digits) - 1))
         + (IndexIn(DecimalDigits, digits[Len(digits)]) - 1)

\* parseInt(string, 10): the value of the leading digits, NaN when there
\* are none (also for undefined)
ParseInt(field) ==
  IF ~field.defined \/ LeadingDigits(field.text) = << >>
    THEN [nan |-> TRUE, value |-> 0]
    ELSE [nan |-> FALSE, value |-> DecimalValue(LeadingDigits(field.text))]

\* the characters of the modelled strings and their UTF-16 code units
\* (String.prototype.charCodeAt): the printable ASCII range (the quotation
\* mark, the backslash and the grave accent written as tokens), and a with diaeresis
\* (U+00E4, code unit 228) written as a token
Printable ==
  <<" ", "!", "U+0022", "#", "$", "%", "&", "'", "(", ")", "*", "+", ",", "-", ".", "/",
    "0", "1", "2", "3", "4", "5", "6", "7", "8", "9", ":", ";", "<", "=", ">", "?", "@",
    "A", "B", "C", "D", "E", "F", "G", "H", "I", "J", "K", "L", "M", "N", "O", "P", "Q",
    "R", "S", "T", "U", "V", "W", "X", "Y", "Z", "[", "U+005C", "]", "^", "_", "U+0060",
    "a", "b", "c", "d", "e", "f", "g", "h", "i", "j", "k", "l", "m", "n", "o", "p", "q",
    "r", "s", "t", "u", "v", "w", "x", "y", "z", "{", "|", "}", "~">>
ADiaeresis == "U+00E4"
CharCodeAt(c) == IF c = ADiaeresis THEN 228 ELSE 31 + IndexIn(Printable, c)

\* the byte order of the host's typed arrays
ByteOrders == {"little", "big"}
HostByteOrder == hIn.host

\* the result of a platform primitive: its bytes where the answer is
\* known, an uninterpreted term over the inputs otherwise
Known(bytes) == [known |-> TRUE, bytes |-> bytes, term |-> ""]
Opaque(term) == [known |-> FALSE, bytes |-> << >>, term |-> ToString(term)]
Operand(data) == IF data.known THEN ToString(data.bytes) ELSE data.term

\* known answers of PBKDF2 with HMAC-SHA-256 and 256 bits of output:
\* <<value, salt, iterations, derived bits>>
Pbkdf2Pass1 ==
  <<35, 66, 142, 157, 236, 57, 217, 90, 199, 164, 5, 20, 6, 45, 240, 249,
    233, 79, 153, 110, 23, 195, 152, 199, 152, 152, 208, 64, 59, 51, 45, 59>>
Pbkdf2Pass2 ==
  <<23, 152, 161, 103, 43, 202, 124, 100, 99, 214, 178, 69, 248, 43, 83, 112,
    59, 15, 80, 129, 52, 1, 176, 62, 64, 69, 165, 134, 30, 104, 154, 219>>
Pbkdf2Answers ==
  { <<Known(<<49, 101, 120, 97, 109, 112, 108, 101, 33>>), <<90, 23, 17>>, 10000, Pbkdf2Pass1>>,
    <<Known(Pbkdf2Pass1), <<90, 23, 34>>, 2000, Pbkdf2Pass2>> }

\* crypto.subtle.deriveBits({ name: "PBKDF2", iterations, ... }): the
\* iteration count is an unsigned long (NaN is a TypeError) and must not
\* be zero (OperationError)
Pbkdf2(value, salt, iterations) ==
  IF iterations.nan THEN [ok |-> FALSE, name |-> "TypeError", bits |-> Known(<< >>)]
  ELSE IF iterations.value = 0 THEN [ok |-> FALSE, name |-> "OperationError", bits |-> Known(<< >>)]
  ELSE [ok |-> TRUE, name |-> "none",
        bits |-> IF \E k \in Pbkdf2Answers : k[1] = value /\ k[2] = salt /\ k[3] = iterations.value
                   THEN Known((CHOOSE k \in Pbkdf2Answers :
                                 k[1] = value /\ k[2] = salt /\ k[3] = iterations.value)[4])
                   ELSE Opaque(<<"PBKDF2-HMAC-SHA256", Operand(value), salt, iterations.value, 256>>)]

\* new TextEncoder().encode(password): one byte below 128, two below 2048
RECURSIVE Utf8(_)
Utf8(text) ==
  IF text = << >> THEN << >>
  ELSE (IF CharCodeAt(Head(text)) < 128
          THEN <<CharCodeAt(Head(text))>>
          ELSE <<192 + (CharCodeAt(Head(text)) \div 64), 128 + (CharCodeAt(Head(text)) % 64)>>)
       \o Utf8(Tail(text))

\* Uint8Array.prototype.toHex: two lower-case digits a byte
RECURSIVE HexText(_)
HexText(bytes) ==
  IF bytes = << >> THEN << >>
  ELSE <<HexDigits[(Head(bytes) \div 16) + 1], HexDigits[(Head(bytes) % 16) + 1]>> \o HexText(Tail(bytes))

ToHex(data) == IF data.known THEN HexText(data.bytes) ELSE <<"hex", data.term>>

\* the bytes of a Uint16Array holding the code units of the text, as a
\* BufferSource shows them: each element in the byte order of the host
RECURSIVE Uint16Bytes(_, _)
Uint16Bytes(text, byteOrder) ==
  IF text = << >> THEN << >>
  ELSE (IF byteOrder = "little"
          THEN <<CharCodeAt(Head(text)) % 256, CharCodeAt(Head(text)) \div 256>>
          ELSE <<CharCodeAt(Head(text)) \div 256, CharCodeAt(Head(text)) % 256>>)
       \o Uint16Bytes(Tail(text), byteOrder)

\* encodeUtf16Le, lines 131-137
EncodeUtf16Le(text) == Uint16Bytes(text, HostByteOrder)

\* known answers of MD5: <<data, digest>>
Md5Answers ==
  { << <<49, 0, 50, 0, 51, 0, 52, 0, 53, 0, 54, 0, 55, 0, 122, 0, 45, 0, 228, 0, 98, 0, 99, 0>>,
       <<158, 34, 74, 65, 238, 239, 162, 132, 223, 123, 176, 242, 108, 41, 19, 226>> >> }

\* crypto.subtle.digest("MD5", data)
Md5(data) ==
  IF \E k \in Md5Answers : k[1] = data
    THEN Known((CHOOSE k \in Md5Answers : k[1] = data)[2])
    ELSE Opaque(<<"MD5", data>>)

\* handleChallengeV1, lines 81-90
HandleChallengeV1(challenge, password) ==
  Response("V1", challenge \o <<"-">> \o ToHex(Md5(EncodeUtf16Le(challenge \o <<"-">> \o password))))

\* mutant: the response is made from the first pass alone
HandleChallengeV2OnePass(challenge, password) ==
  LET fields == Split(challenge, "$")
      bytes1 == FromHex(Element(fields, 3))
      hash1 == Pbkdf2(Known(Utf8(password)), bytes1.bytes, ParseInt(Element(fields, 2)))
  IN IF ~bytes1.ok THEN Failure("V2", bytes1.name)
     ELSE IF ~hash1.ok THEN Failure("V2", hash1.name)
     ELSE Response("V2", Element(fields, 5).text \o <<"$">> \o ToHex(hash1.bits))

\* handleChallengeV2, lines 92-109
HandleChallengeV2(challenge, password) ==
  LET fields == Split(challenge, "$")
      iter1 == Element(fields, 2)
      salt1 == Element(fields, 3)
      iter2 == Element(fields, 4)
      salt2 == Element(fields, 5)
      bytes1 == FromHex(salt1)
      hash1 == Pbkdf2(Known(Utf8(password)), bytes1.bytes, ParseInt(iter1))
      bytes2 == FromHex(salt2)
      hash2 == Pbkdf2(hash1.bits, bytes2.bytes, ParseInt(iter2))
  IN IF ~bytes1.ok THEN Failure("V2", bytes1.name)
     ELSE IF ~hash1.ok THEN Failure("V2", hash1.name)
     ELSE IF ~bytes2.ok THEN Failure("V2", bytes2.name)
     ELSE IF ~hash2.ok THEN Failure("V2", hash2.name)
     ELSE Response("V2", salt2.text \o <<"$">> \o ToHex(hash2.bits))

\* mutant: any challenge with a "$" in it is taken for a V2 challenge
IsV2IfDollar(challenge) == \E i \in 1..Len(challenge) : challenge[i] = "$"

\* handleChallenge, line 74: challenge.startsWith("2$")
IsV2(challenge) == StartsWith(challenge, <<"2", "$">>)

\* handleChallenge, lines 69-79
HandleChallenge(challenge, password) ==
  IF IsV2(challenge)
    THEN HandleChallengeV2(challenge, password)
    ELSE HandleChallengeV1(challenge, password)

\* String.prototype.join("$")
RECURSIVE Join(_)
Join(fields) ==
  IF Len(fields) = 1 THEN fields[1]
  ELSE fields[1] \o <<"$">> \o Join(Tail(fields))

\* the fields challenges are made of
IterationFields == { <<"1", "0">>, <<"2", "0", "0", "0">>, <<"1", "0", "0", "0", "0">>, << >>, <<"0">>, <<"1", "2", "a", "b", "c">>, <<"x">> }
SaltFields == { <<"5", "A", "1", "7", "1", "1">>, <<"5", "A", "1", "7", "2", "2">>, <<"5", "a", "1", "7">>, << >>, <<"5", "A", "1">>, <<"z", "z">>, <<"5", "A", "1", "G">> }

\* challenges of the plain form, among them some with a "$" in them
PlainChallenges ==
  { << >>, <<"1", "2", "3", "4", "5", "6", "7", "z">>, <<"2">>, <<"$">>, <<"$", "2">>, <<"1", "2", "$", "3", "4">>,
    <<"2", "2", "$", "1", "0">>, Join(<<<<"1">>, <<"1", "0">>, <<"5", "A", "1", "7", "1", "1">>, <<"1", "0">>, <<"5", "A", "1", "7", "2", "2">>>>) }

\* challenges that start with "2$", of 2 to 6 fields
DollarChallenges ==
  { Join(<<<<"2">>, i1>>) : i1 \in IterationFields }
    \cup { Join(<<<<"2">>, <<"1", "0">>, s1>>) : s1 \in SaltFields }
    \cup { Join(<<<<"2">>, <<"1", "0">>, <<"5", "A", "1", "7", "1", "1">>, i2>>) : i2 \in IterationFields }
    \cup { Join(<<<<"2">>, f[1], f[2], <<"2", "0", "0", "0">>, f[3]>>) :
             f \in IterationFields \X SaltFields \X SaltFields }
    \cup { Join(<<<<"2">>, <<"1", "0">>, <<"5", "A", "1", "7", "1", "1">>, f[1], f[2]>>) :
             f \in IterationFields \X SaltFields }
    \cup { Join(<<<<"2">>, <<"1", "0">>, <<"5", "A", "1", "7", "1", "1">>, <<"2", "0", "0", "0">>, f[1], f[2]>>) :
             f \in SaltFields \X (SaltFields \cup IterationFields) }

Passwords == { << >>, <<"1", "e", "x", "a", "m", "p", "l", "e", "!">>, <<"a", "b", "c">>, <<ADiaeresis, "b", "c">> }

ChallengeInit ==
  /\ ClientInit
  /\ BuildIdle
  /\ EnvelopeIdle
  /\ DeviceIdle
  /\ hIn \in [challenge : PlainChallenges \cup DollarChallenges, password : Passwords, host : ByteOrders]
  /\ hOut = NotSettled
  /\ LoginIdle

Respond ==
  /\ hOut = NotSettled
  /\ hOut' = <<HandleChallenge(hIn.challenge, hIn.password)>>
  /\ UNCHANGED <<clientVars, buildVars, envelopeVars, deviceVars, hIn, lIn, lOut>>

ChallengeNext == Respond

ChallengeSpec == ChallengeInit /\ [][ChallengeNext]_vars

\* ------------------------------------------------------------------------
\* UserPassword.login: two exchanges on the client it is given
\* ------------------------------------------------------------------------
\* LoginSid: RequestSid with a request schema { username, response }
LoginSid == [method |-> NoMethod, query |-> <<<<"version", "2">>>>]

\* the sid of the login page before the login, and the sid of a session
NoSid == "0000000000000000"

\* How the router answers an exchange: the request fails in the transport,
\* or a response arrives whose body matches the schema of RequestSid or
\* does not
Replies ==
  { [kind |-> "rejected", status |-> 0, body |-> "none"] }
    \cup [kind : {"response"}, status : {200, 403}, body : {"sessionInfo", "mismatch"}]

\* client.request(endpoint, payload).then((x) => x.data()): the request's
\* failure, a FritzError for a status that is not 2xx (data() calls
\* throwOnError first), a ValiError for a body that fails the schema
DataOf(reply) ==
  IF reply.kind = "rejected" THEN [ok |-> FALSE, error |-> FetchError.name]
  ELSE IF ~ResponseOk(reply) THEN [ok |-> FALSE, error |-> "FritzError"]
  ELSE IF reply.body # "sessionInfo" THEN [ok |-> FALSE, error |-> ValiError.name]
  ELSE [ok |-> TRUE, error |-> "none"]

\* response.sessionInfo of the n-th exchange: the first carries the
\* challenge, the second the sid of the session
SessionInfoOf(n, challenge) ==
  [exchange |-> n, sid |-> IF n = 1 THEN NoSid ELSE SidOf(1), challenge |-> challenge]

\* the payload { username, response } of the second exchange
LoginPayload(username, response) ==
  Payload(<<<<"username", username>>, <<"response", ToString(response)>>>>)

\* the challenges the router sends: plain, of five fields, of six and of
\* four fields, with a salt that is not hex
LoginChallenges ==
  { <<"1", "2", "3", "4", "5", "6", "7", "z">>,
    Join(<<<<"2">>, <<"1", "0">>, <<"5", "A", "1", "7", "1", "1">>, <<"2", "0", "0", "0">>, <<"5", "A", "1", "7", "2", "2">>>>),
    Join(<<<<"2">>, <<"1", "0">>, <<"5", "A", "1", "7", "1", "1">>, <<"2", "0", "0", "0">>, <<"5", "A", "1", "7", "2", "2">>, <<"5", "a", "1", "7">>>>),
    Join(<<<<"2">>, <<"1", "0">>, <<"5", "A", "1", "7", "1", "1">>, <<"2", "0", "0", "0">>>>),
    Join(<<<<"2">>, <<"1", "0">>, <<"5", "A", "1">>, <<"2", "0", "0", "0">>, <<"5", "A", "1", "7", "2", "2">>>>),
    Join(<<<<"2">>, <<"1", "0">>, <<"5", "A", "1", "7", "1", "1">>, <<"2", "0", "0", "0">>, <<"z", "z">>>>) }

LoginInit ==
  /\ ClientInit
  /\ BuildIdle
  /\ EnvelopeIdle
  /\ DeviceIdle
  /\ hIn \in [challenge : LoginChallenges,
              password : {<<"1", "e", "x", "a", "m", "p", "l", "e", "!">>},
              host : {"little"}]
  /\ hOut = NotSettled
  /\ lIn \in [username : {"user"}, first : Replies, second : Replies]
  /\ lOut = NotCalled

\* login(client) up to its first await: client.request(RequestSid)
LoginCall ==
  /\ lOut.pc = "idle"
  /\ lOut' = [lOut EXCEPT !.pc = "first",
                          !.sent = <<BuildRequest(RequestSid, NoPayload)>>]
  /\ UNCHANGED <<clientVars, buildVars, envelopeVars, deviceVars, hIn, hOut, lIn>>

\* the first exchange settles: on a failure login throws; otherwise the
\* challenge of its sessionInfo goes to handleChallenge, which is awaited
\* while the arguments of the second request() are evaluated
FirstSettles ==
  /\ lOut.pc = "first"
  /\ LET data == DataOf(lIn.first)
         challenge == SessionInfoOf(1, hIn.challenge).challenge
         answer == HandleChallenge(challenge, hIn.password)
     IN IF ~data.ok
          THEN /\ lOut' = [lOut EXCEPT !.pc = "failed", !.error = data.error]
               /\ hOut' = hOut
          ELSE /\ hOut' = <<answer>>
               /\ lOut' = IF answer.kind = "error"
                            THEN [lOut EXCEPT !.pc = "failed", !.error = answer.name]
                            ELSE [lOut EXCEPT !.pc = "second",
                                              !.sent = Append(@, BuildRequest(LoginSid,
                                                         LoginPayload(lIn.username, answer.text)))]
  /\ UNCHANGED <<clientVars, buildVars, envelopeVars, deviceVars, hIn, lIn>>

\* the second exchange settles: `return response.sessionInfo`
SecondSettles ==
  /\ lOut.pc = "second"
  /\ LET data == DataOf(lIn.second)
     IN lOut' = IF data.ok
                  THEN [lOut EXCEPT !.pc = "done", !.result = <<SessionInfoOf(2, hIn.challenge)>>]
                  ELSE [lOut EXCEPT !.pc = "failed", !.error = data.error]
  /\ UNCHANGED <<clientVars, buildVars, envelopeVars, deviceVars, hIn, hOut, lIn>>

LoginNext == LoginCall \/ FirstSettles \/ SecondSettles

LoginSpec == LoginInit /\ [][LoginNext]_vars

\* ------------------------------------------------------------------------
\* SmartHomeDeviceState: the getters of the level
\* ------------------------------------------------------------------------
\* the largest level and the largest percentage the device schema admits
MaxLevel == 255
MaxPercent == 100

\* JavaScript values: undefined, null and the numbers
JsUndefined == [type |-> "undefined", value |-> 0]
JsNull == [type |-> "null", value |-> 0]
JsNumber(n) == [type |-> "number", value |-> n]

\* !value: undefined, null and 0 are falsy (and so is NaN, which the schema
\* does not admit)
Falsy(v) == v.type \in {"undefined", "null"} \/ (v.type = "number" /\ v.value = 0)

\* this.#state.levelcontrol?.level and ...?.levelpercentage
LevelField(info, field) ==
  IF ~info.levelcontrol.present THEN JsUndefined
  ELSE IF field = "level" THEN info.levelcontrol.level
  ELSE info.levelcontrol.levelpercentage

\* `if (!level || isNaN(level)) return undefined; return level;`
UnlessFalsy(level) == IF Falsy(level) THEN JsUndefined ELSE level

\* get level, lines 416-423
Level(info) == UnlessFalsy(LevelField(info, "level"))

\* get levelPercent, lines 430-437
LevelPercent(info) == UnlessFalsy(LevelField(info, "levelpercentage"))

\* what the schema of the device info admits for a nullish number of 0..max
Nullish(max) == {JsUndefined, JsNull} \cup {JsNumber(n) : n \in 0..max}

\* the level control of a device info: absent, every level with some
\* percentages, every percentage with some levels
LevelControls ==
  { [present |-> FALSE] }
    \cup [present : {TRUE}, level : Nullish(MaxLevel),
          levelpercentage : {JsUndefined, JsNumber(0), JsNumber(MaxPercent)}]
    \cup [present : {TRUE}, level : {JsNull, JsNumber(0), JsNumber(MaxLevel)},
          levelpercentage : Nullish(MaxPercent)]

DeviceInit ==
  /\ ClientInit
  /\ BuildIdle
  /\ EnvelopeIdle
  /\ ChallengeIdle
  /\ dIn \in [getter : {"level", "levelPercent"}, info : [levelcontrol : LevelControls]]
  /\ dOut = NotRead
  /\ CommandIdle

\* a getter of the state is read
ReadGetter ==
  /\ dOut = NotRead
  /\ dOut' = <<IF dIn.getter = "level" THEN Level(dIn.info) ELSE LevelPercent(dIn.info)>>
  /\ UNCHANGED <<clientVars, buildVars, envelopeVars, challengeVars, dIn, kIn, kOut>>

DeviceNext == ReadGetter

DeviceSpec == DeviceInit /\ [][DeviceNext]_vars

\* ------------------------------------------------------------------------
\* SmartHomeDevice: the methods that switch the device
\* ------------------------------------------------------------------------
\* DeviceFunctionBitmask
SupportsOnOff == 2^15
SupportsLevel == 2^16
SupportsColor == 2^17

\* a & b on non-negative integers
RECURSIVE BitAnd(_, _)
BitAnd(a, b) ==
  IF a = 0 \/ b = 0 THEN 0
  ELSE (a % 2) * (b % 2) + 2 * BitAnd(a \div 2, b \div 2)

\* supportsFeature(feature): (this.features & feature) === feature
SupportsFeature(features, feature) == BitAnd(features, feature) = feature

\* numbers of JavaScript: an integer, or NaN
Num(n) == <<[nan |-> FALSE, value |-> n]>>
NaN == <<[nan |-> TRUE, value |-> 0]>>

\* a < b: false when either is NaN
Less(a, b) == ~a[1].nan /\ ~b[1].nan /\ a[1].value < b[1].value

\* `x < low || x > high`
Outside(x, low, high) == Less(x, Num(low)) \/ Less(Num(high), x)

\* String(x), as URLSearchParams applies it to a payload field
NumberText(x) == IF x[1].nan THEN "NaN" ELSE ToString(x[1].value)

\* the arguments of the methods: a number, or an HsvColor
NumberArgument(x) == [type |-> "number", number |-> x, hue |-> << >>, saturation |-> << >>]
ColorArgument(hue, saturation) == [type |-> "hsv", number |-> << >>, hue |-> hue, saturation |-> saturation]

\* BaseEndpoint: GET /webservices/homeautoswitch.lua
HomeAutoSwitch == [method |-> "GET", query |-> << >>]

ActorId == "12345 0000001"

Refused(message) == [error |-> message, fields |-> << >>]
Command(fields) == [error |-> "none", fields |-> fields]

\* turnOn and turnOff, lines 217-242
SetOnOff(features, onoff) ==
  IF ~SupportsFeature(features, SupportsOnOff) THEN Refused("Device does not support On/Off")
  ELSE Command(<<<<"ain", ActorId>>, <<"switchcmd", "setsimpleonoff">>, <<"onoff", onoff>>>>)

\* setLevel, lines 249-262
SetLevel(features, level) ==
  IF ~SupportsFeature(features, SupportsLevel) THEN Refused("Device does not support Level")
  ELSE IF Outside(level, 0, 255) THEN Refused("Level must be between 0 and 255")
  ELSE Command(<<<<"ain", ActorId>>, <<"switchcmd", "setlevel">>, <<"level", NumberText(level)>>>>)

\* setLevelPercent, lines 268-281
SetLevelPercent(features, percent) ==
  IF ~SupportsFeature(features, SupportsLevel) THEN Refused("Device does not support Level")
  ELSE IF Outside(percent, 0, 100) THEN Refused("Percent must be between 0 and 100")
  ELSE Command(<<<<"ain", ActorId>>, <<"switchcmd", "setlevelpercentage">>, <<"level", NumberText(percent)>>>>)

\* setColor, lines 296-334: by temperature when the argument is a number,
\* by hue and saturation otherwise
SetColor(features, argument) ==
  IF ~SupportsFeature(features, SupportsColor) THEN Refused("Device does not support Color")
  ELSE IF argument.type = "number"
    THEN IF Outside(argument.number, 2700, 6500)
           THEN Refused("Temperature must be between 2700 and 6500")
           ELSE Command(<<<<"ain", ActorId>>, <<"switchcmd", "setcolortemperature">>,
                          <<"temperature", NumberText(argument.number)>>, <<"duration", "0">>>>)
    ELSE IF Outside(argument.hue, 0, 359) THEN Refused("Hue must be between 0 and 359")
    ELSE IF Outside(argument.saturation, 0, 255) THEN Refused("Saturation must be between 0 and 255")
    ELSE Command(<<<<"ain", ActorId>>, <<"switchcmd", "setunmappedcolor">>,
                   <<"hue", NumberText(argument.hue)>>,
                   <<"saturation", NumberText(argument.saturation)>>, <<"duration", "0">>>>)

\* the method called, up to its first await
Invoked(features, method, argument) ==
  IF method = "turnOn" THEN SetOnOff(features, "1")
  ELSE IF method = "turnOff" THEN SetOnOff(features, "0")
  ELSE IF method = "setLevel" THEN SetLevel(features, argument.number)
  ELSE IF method = "setLevelPercent" THEN SetLevelPercent(features, argument.number)
  ELSE SetColor(features, argument)

\* the function bitmasks of the devices: none of the three features, each
\* alone (a switch, a blind, a lamp), and all of them
DeviceFeatures ==
  { 0, 2^9 + 2^7 + 2^8, 2^9 + SupportsOnOff, 2^18 + SupportsLevel, 2^2 + SupportsColor,
    2^2 + SupportsOnOff + SupportsLevel + SupportsColor }

\* numbers at and around the limits of the ranges, and NaN
Numbers == {Num(n) : n \in {-1, 0, 1, 100, 101, 255, 256, 359, 360, 2699, 2700, 6500, 6501}} \cup {NaN}

Hues == {Num(n) : n \in {-1, 0, 359, 360}} \cup {NaN}
Saturations == {Num(n) : n \in {-1, 0, 255, 256}} \cup {NaN}

CommandInputs ==
  [features : DeviceFeatures, method : {"turnOn", "turnOff"}, argument : {NoArgument}]
    \cup [features : DeviceFeatures, method : {"setLevel", "setLevelPercent", "setColor"},
          argument : {NumberArgument(x) : x \in Numbers}]
    \cup [features : DeviceFeatures, method : {"setColor"},
          argument : {ColorArgument(c[1], c[2]) : c \in Hues \X Saturations}]

CommandInit ==
  /\ ClientInit
  /\ BuildIdle
  /\ EnvelopeIdle
  /\ ChallengeIdle
  /\ dIn = [getter |-> "level", info |-> [levelcontrol |-> [present |-> FALSE]]]
  /\ dOut = NotRead
  /\ kIn \in CommandInputs
  /\ kOut = NotInvoked

\* the method runs up to its first await: it throws, or issues the request
Invoke ==
  /\ kOut.pc = "idle"
  /\ LET made == Invoked(kIn.features, kIn.method, kIn.argument)
     IN kOut' = IF made.error # "none"
                  THEN [kOut EXCEPT !.pc = "failed", !.error = made.error]
                  ELSE [kOut EXCEPT !.pc = "request",
                                    !.sent = <<BuildRequest(HomeAutoSwitch, Payload(made.fields))>>]
  /\ UNCHANGED <<clientVars, buildVars, envelopeVars, challengeVars, dIn, dOut, kIn>>

\* `await this.#client.request(...).then((x) => x.data())` settles
CommandSettles(ok) ==
  /\ kOut.pc = "request"
  /\ kOut' = IF ok THEN [kOut EXCEPT !.pc = "done"]
             ELSE [kOut EXCEPT !.pc = "failed", !.error = "request"]
  /\ UNCHANGED <<clientVars, buildVars, envelopeVars, challengeVars, dIn, dOut, kIn>>

CommandNext == Invoke \/ \E ok \in BOOLEAN : CommandSettles(ok)

CommandSpec == CommandInit /\ [][CommandNext]_vars

\* ------------------------------------------------------------------------
\* Properties
\* ------------------------------------------------------------------------
\* the requests that went through the auth-wrapped client
AuthReqs == {r \in 1..Len(reqs) : reqs[r].client >= AuthStage}

\* auth.request handed request r to the next stage
Forwarded(r) == reqs[r].fwd # << >>

\* the sid request r carried when auth handed it on
SidSent(r) == SPGet(reqs[r].fwd[1].query, "sid")

LoginResolved(i) == loginLog[i].result \notin {"pending", "error"}

LogoutsOf(d) == {i \in 1..Len(logoutLog) : logoutLog[i].disp = d}

SeqSet(q) == {q[i] : i \in 1..Len(q)}

\* C1: through an auth-wrapped client without a session, N >= 1 requests
\* made one after the other, with login succeeding and nothing disposed,
\* invoke handler.login exactly once, and every request handed to the next
\* stage carries the sid that login returned.
C1_OneLoginForSequentialRequests ==
  ( /\ disps = << >>
    /\ AuthReqs # {}
    /\ \A i \in 1..Len(loginLog) : loginLog[i].result # "error" )
  => /\ Len(loginLog) = 1
     /\ \A r \in AuthReqs :
          Forwarded(r) => /\ SPHas(reqs[r].fwd[1].query, "sid")
                          /\ SidSent(r) = loginLog[1].result

C1_Witness ==
  /\ disps = << >>
  /\ Len(loginLog) = 1
  /\ LoginResolved(1)
  /\ Cardinality({r \in AuthReqs : Forwarded(r) /\ reqs[r].phase = "done"}) >= 3

\* C2: for one login session handler.logout is invoked at most once, however
\* often dispose is invoked (also while an earlier logout is still pending).
C2_LogoutAtMostOncePerSession ==
  \A i, j \in 1..Len(logoutLog) :
    i # j => logoutLog[i].sid # logoutLog[j].sid

\* the sessions handler.login returned that were not yet passed to
\* handler.logout
LiveSessions ==
  {loginLog[i].result : i \in {j \in 1..Len(loginLog) : LoginResolved(j)}}
    \ {logoutLog[i].sid : i \in 1..Len(logoutLog)}

\* C3: in every reachable state at most one SessionInfo returned by
\* handler.login and not yet passed to handler.logout exists.
C3_AtMostOneLiveSession == Cardinality(LiveSessions) <= 1

\* request r was handed to the next stage by auth in this step
NewlyForwarded(r) ==
  /\ r \in 1..Len(reqs')
  /\ reqs'[r].fwd # << >>
  /\ r \in 1..Len(reqs) => reqs[r].fwd = << >>

\* C4: every request auth hands to the next stage has the query parameter
\* sid equal to the stored session's sid; a request with a form body has the
\* body field sid equal to it too, and a request without a body gets none.
C4_SidInjectedIntoEveryRequest ==
  [][\A r \in 1..MaxCalls :
       NewlyForwarded(r) =>
         LET sent == reqs'[r].fwd[1]
             built == BuildRequest(reqs'[r].call.endpoint, reqs'[r].call.payload)
         IN /\ session' # NoSession
            /\ SPHas(sent.query, "sid")
            /\ SPGet(sent.query, "sid") = session'
            /\ IF built.body.present
                 THEN /\ sent.body.present
                      /\ SPHas(sent.body.fields, "sid")
                      /\ SPGet(sent.body.fields, "sid") = session'
                 ELSE sent.body = NoBody]_vars

C4_Witness ==
  \E r \in AuthReqs :
    /\ Forwarded(r)
    /\ ~reqs[r].login
    /\ reqs[r].fwd[1].body.present
    /\ SPGet(reqs[r].fwd[1].body.fields, "sid") = session

\* dispose call d held a session: its auth hook invoked handler.logout
HeldSession(d) == LogoutsOf(d) # {}

SidLoggedOut(d) == logoutLog[CHOOSE i \in LogoutsOf(d) : TRUE].sid

\* the place of a call in the order of the calls
At(kind, n) == CHOOSE i \in 1..Len(order) : order[i] = <<kind, n>>

\* request r was made after dispose call d
After(d, r) == At("request", r) > At("dispose", d)

\* the first request through auth that was made after dispose call d
NextAuthReqAfter(d, r) ==
  /\ r \in AuthReqs
  /\ After(d, r)
  /\ \A q \in AuthReqs : After(d, q) => q >= r

\* C5: once a dispose that held a session has completed, the stored session
\* is cleared: the next request invokes handler.login again before anything
\* is handed on, and no later request carries the logged-out sid.
C5_DisposeClearsSession ==
  \A d \in 1..Len(disps) :
    (disps[d].state = "done" /\ HeldSession(d)) =>
      /\ session # SidLoggedOut(d)
      /\ At("dispose", d) = Len(order) => session = NoSession
      /\ \A r \in AuthReqs :
           /\ NextAuthReqAfter(d, r) => reqs[r].login
           /\ (After(d, r) /\ Forwarded(r)) =>
                /\ SidSent(r) # SidLoggedOut(d)
                /\ reqs[r].fwd[1].body.present =>
                     SPGet(reqs[r].fwd[1].body.fields, "sid") # SidLoggedOut(d)

C5_Witness ==
  \E d \in 1..Len(disps), r \in AuthReqs :
    /\ disps[d].state = "done"
    /\ HeldSession(d)
    /\ NextAuthReqAfter(d, r)
    /\ reqs[r].login
    /\ Forwarded(r)

\* the auth middleware's dispose hook was invoked for dispose call d in
\* this step
AuthHookInvoked(d) ==
  /\ d \in 1..Len(disps')
  /\ AuthStage \in SeqSet(disps'[d].hooks)
  /\ d \in 1..Len(disps) => AuthStage \notin SeqSet(disps[d].hooks)

\* C6: a dispose of the auth-wrapped client invokes handler.logout exactly
\* once, with the base client and the session, when a session is held, and
\* not at all when none is held; nothing else invokes handler.logout.
C6_LogoutOncePerDispose ==
  [][/\ \A d \in 1..MaxCalls :
          AuthHookInvoked(d) =>
            IF session # NoSession
              THEN logoutLog' = Append(logoutLog,
                                       [disp |-> d, client |-> AuthStage - 1, sid |-> session])
              ELSE logoutLog' = logoutLog
     /\ (\A d \in 1..MaxCalls : ~AuthHookInvoked(d)) => logoutLog' = logoutLog
     /\ \A d \in 1..Len(disps') :
          Cardinality({i \in 1..Len(disps'[d].hooks) : disps'[d].hooks[i] = AuthStage}) <= 1
    ]_vars

C6_Witness ==
  \E d, e \in 1..Len(disps) :
    /\ disps[d].client >= AuthStage /\ disps[d].state = "done"
    /\ disps[e].client >= AuthStage /\ disps[e].state = "done"
    /\ Cardinality(LogoutsOf(d)) = 1
    /\ logoutLog[CHOOSE i \in LogoutsOf(d) : TRUE].client = AuthStage - 1
    /\ LogoutsOf(e) = {}

\* the stages c, c-1, ... : the first n of them
Descending(c, n) == [i \in 1..n |-> c - i + 1]

IsEntry(e) == e[1] = "in"

\* the stages request r has entered, in order
Entered(r) ==
  LET ins == SelectSeq(reqs[r].trace, IsEntry)
  IN [i \in 1..Len(ins) |-> ins[i][2]]

ReachedTransport(r) == reqs[r].phase \in {"transport", "done"} \/ reqs[r].error = "network"

\* C7: a request enters the middleware in the reverse order of attachment
\* (M2 before M1) and the transport last; a dispose invokes the dispose hooks
\* in the same order and the base client's dispose last.
C7_OutermostFirst ==
  /\ \A r \in 1..Len(reqs) :
       /\ Len(Entered(r)) <= reqs[r].client + 1
       /\ Entered(r) = Descending(reqs[r].client, Len(Entered(r)))
       /\ ReachedTransport(r) => Len(Entered(r)) = reqs[r].client + 1
  /\ \A d \in 1..Len(disps) :
       /\ Len(disps[d].hooks) <= disps[d].client + 1
       /\ disps[d].hooks = Descending(disps[d].client, Len(disps[d].hooks))
       /\ disps[d].state = "done" => Len(disps[d].hooks) = disps[d].client + 1

C7_Witness ==
  /\ \E r \in 1..Len(reqs) :
       /\ reqs[r].client = NumStages
       /\ reqs[r].phase = "done"
       /\ Entered(r) = Descending(NumStages, NumStages + 1)
  /\ \E d \in 1..Len(disps) :
       /\ disps[d].client = NumStages
       /\ disps[d].state = "done"
       /\ disps[d].hooks = Descending(NumStages, NumStages + 1)

\* how often the dispose hook of middleware k has run
HookRuns(k) ==
  Cardinality({<<d, i>> \in (1..Len(disps)) \X (1..(NumStages + 1)) :
                 i <= Len(disps[d].hooks) /\ disps[d].hooks[i] = k})

\* C8: across every teardown (one dispose, several, or one in which another
\* hook throws) every attached middleware's dispose hook runs exactly once.
C8_EachHookRunsExactlyOnce ==
  \A k \in Stages :
    /\ HookRuns(k) <= 1
    /\ (\E d \in 1..Len(disps) : disps[d].client >= k /\ disps[d].state # "pending")
         => HookRuns(k) = 1

\* C9: a dispose does not cancel or fail a request in flight: no dispose
\* step changes a request, and a request waiting for login is handed on to
\* the transport when the login resolves, whatever was disposed meanwhile.
C9_DisposeLeavesRequestsInFlight ==
  [][/\ disps' # disps => reqs' = reqs
     /\ \A r \in 1..Len(reqs) :
          /\ reqs'[r].error \notin {"TypeError", "aborted"}
          /\ (reqs[r].phase = "login" /\ reqs'[r].phase # "login" /\ reqs'[r].error # "login")
               => reqs'[r].phase = "transport"
          /\ (reqs[r].phase = "transport" /\ reqs'[r].phase # "transport")
               => reqs'[r].phase = "done" \/ reqs'[r].error = "network"
    ]_vars

\* a dispose invoked on the auth-wrapped client has logged out the session
\* and finished while the request that logged in is still at the transport
\* and another request is still waiting for its login
C9_Witness ==
  \E d \in 1..Len(disps) :
    /\ disps[d].client = AuthStage
    /\ disps[d].state = "done"
    /\ HeldSession(d)
    /\ \E r \in AuthReqs :
         /\ reqs[r].login
         /\ reqs[r].phase = "transport"
         /\ SidSent(r) = SidLoggedOut(d)
    /\ \E r \in AuthReqs : reqs[r].phase = "login"

PairIn(q, k, v) == \E i \in 1..Len(q) : q[i] = <<k, v>>

\* C10: a GET carries every payload field in the query string and no body;
\* a POST carries every payload field in the form body and the query string
\* the endpoint path had.
C10_PayloadPlacement ==
  bOut # NotBuilt =>
    LET request == bOut[1]
        fields == bIn.payload.fields
    IN /\ request.method \in {"GET", "POST"}
       /\ request.method = "GET" =>
            /\ ~request.body.present
            /\ request.body.fields = << >>
            /\ \A i \in 1..Len(fields) :
                 PairIn(request.query, fields[i][1], ToStringValue(fields[i][2]))
       /\ request.method = "POST" =>
            /\ request.query = bIn.endpoint.query
            /\ bIn.payload.present =>
                 /\ request.body.present
                 /\ \A i \in 1..Len(fields) :
                      PairIn(request.body.fields, fields[i][1], ToStringValue(fields[i][2]))

C10_Witness ==
  /\ bOut # NotBuilt
  /\ bOut[1].method = "GET"
  /\ Len(bIn.payload.fields) = 2
  /\ Len(bIn.endpoint.query) = 2
  /\ Len(bOut[1].query) = 4

\* C11: request() uses the descriptor's explicit method when it has one;
\* otherwise POST when a payload is supplied and GET when none is.
C11_MethodSelection ==
  bOut # NotBuilt =>
    LET explicit == bIn.endpoint.method
        method == bOut[1].method
    IN /\ explicit \in {"GET", "POST"} => method = explicit
       /\ (explicit = NoMethod /\ bIn.payload.present) => method = "POST"
       /\ (explicit = NoMethod /\ ~bIn.payload.present) => method = "GET"

C11_Witness ==
  /\ bOut # NotBuilt
  /\ bIn.endpoint.method = "GET"
  /\ bIn.payload.present
  /\ bOut[1].method = "GET"

\* the decoder the media type of the header calls for, whatever the case
\* the header is written in and whatever parameters follow it
DecoderFor(media) ==
  IF media \in {ApplicationJson, TextJson} THEN "json"
  ELSE IF media \in {ApplicationXml, TextXml} THEN "xml"
  ELSE "text"

\* C14: rawData selects the decoder from the Content-Type header taken
\* case-insensitively with parameters stripped: application/json or
\* text/json gives JSON parsing, application/xml or text/xml gives XML
\* parsing, any other or absent content type gives the raw text.
C14_DecoderByContentType ==
  cOut # NotSelected => cOut[1] = DecoderFor(cIn.media)

\* the body text is what the Content-Type header of the response declares
Decodable(r) ==
  LET decoder == SelectDecoder(r.header, EnvelopeLocale)
      text == IF r.body.exists THEN r.text ELSE EmptyText
  IN /\ decoder = "json" => text = JsonText
     /\ decoder = "xml" => text = XmlText

\* C12: on a response with a non-success status, data() with default
\* options fails with a FritzError that carries the response's status,
\* statusText and decoded body, whether the body is JSON, XML or text.
\* (Stated for the first call on an envelope whose body nobody else has
\* claimed, is what its Content-Type declares and is read without a
\* connection failure.)
C12_RequestFailedCarriesResponse ==
  ( /\ Len(ops) >= 1
    /\ ops[1].op = "data"
    /\ ops[1].throwOnError
    /\ ops[1].phase \in {"done", "failed"}
    /\ ~ResponseOk(resp)
    /\ ~resp.claimed
    /\ Decodable(resp)
    /\ ops[1].result # ReadError )
  => /\ ops[1].phase = "failed"
     /\ ops[1].result.name = "FritzError"
     /\ PairIn(ops[1].result.props, "status", resp.status)
     /\ PairIn(ops[1].result.props, "statusText", resp.statusText)
     /\ \E i \in 1..Len(ops[1].result.props) :
          /\ ops[1].result.props[i][1] = "data"
          /\ ops[1].result.props[i][2].kind = "value"
          /\ ops[1].result.props[i][2].text =
               (IF resp.body.exists THEN resp.text ELSE EmptyText)

\* the type of the value a decoder produces
DecodedType(decoder) == IF decoder = "text" THEN "string" ELSE "object"

IsDecodeError(result) ==
  result \in {BodyUsedError, JsonSyntaxError, XmlSyntaxError, ReadError}

\* C13: data() returns a value only when the decoded body matches the
\* response schema; on a mismatch it fails with the validation error and
\* never returns the unvalidated value.
C13_DataValidatesAgainstSchema ==
  \A i \in 1..Len(ops) :
    ( /\ ops[i].op = "data"
      /\ ops[i].phase \in {"done", "failed"} )
    => /\ ops[i].phase = "done" =>
            /\ ops[i].result.kind = "value"
            /\ Accepts(resp.schema, ops[i].result)
       /\ ( /\ ~ops[i].forError
            /\ ~IsDecodeError(ops[i].result)
            /\ resp.schema \notin {"any", DecodedType(ops[i].decoder)} )
          => ops[i].result = ValiError

C13_Witness ==
  \E i \in 1..Len(ops) :
    /\ ops[i].op = "data"
    /\ ops[i].decoder = "json"
    /\ resp.schema = "string"
    /\ resp.text = JsonText
    /\ ops[i].phase = "failed"
    /\ ops[i].result = ValiError

\* the step is a call of [Symbol.asyncDispose] on the envelope
DisposeCalled ==
  /\ Len(ops') = Len(ops) + 1
  /\ ops'[Len(ops')].op = "dispose"

DisposeCalls == {i \in 1..Len(ops) : ops[i].op = "dispose"}

\* C15: disposing the envelope cancels the body exactly when the body
\* exists, has not been read and is not locked; a body already read or
\* claimed is left alone; the disposal never throws and never reads.
C15_DisposeCancelsUnreadBody ==
  [][ DisposeCalled =>
        /\ (resp'.cancelCalls = resp.cancelCalls + 1)
             <=> (resp.body.exists /\ resp.consumed = 0 /\ ~resp.body.locked)
        /\ (resp.body.exists /\ (resp.consumed > 0 \/ resp.body.locked)) => resp' = resp
        /\ ~resp.body.exists => resp' = resp
        /\ resp'.consumed = resp.consumed
        /\ ops'[Len(ops')].phase # "failed"
        /\ \A i \in 1..Len(ops) : ops'[i] = ops[i] ]_vars

C15_Witness ==
  /\ Len(ops) = 2
  /\ ops[1].op = "dispose"
  /\ ops[1].phase = "done"
  /\ resp.sourceCancels = 1
  /\ resp.consumed = 0
  /\ ops[2].op = "rawText"
  /\ ops[2].result = BodyUsedError

\* the calls that asked the Response for its body
ReadAttempts ==
  {i \in 1..Len(ops) : ops[i].op # "dispose" /\ ops[i].decoder # "none"}

\* C16: whatever methods are called on one envelope, the body stream is
\* consumed at most once; a later read attempt does not consume it again.
C16_BodyConsumedAtMostOnce ==
  /\ resp.consumed <= 1
  /\ resp.body.exists =>
       Cardinality({i \in ReadAttempts : ops[i].result # BodyUsedError}) <= 1

C16_Witness ==
  /\ resp.consumed = 1
  /\ \E i, j \in ReadAttempts :
       /\ i < j
       /\ ops[i].phase = "done"
       /\ ops[j].result = BodyUsedError
  /\ \E d \in DisposeCalls : ops[d].phase = "done"

\* C17: disposing the envelope again leaves the body as the first disposal
\* left it, the underlying stream is cancelled at most once, no disposal
\* throws, also after a read of the body that threw.
C17_DisposeIdempotent ==
  [][ DisposeCalled =>
        /\ DisposeCalls # {} =>
             /\ resp'.body = resp.body
             /\ resp'.sourceCancels = resp.sourceCancels
             /\ resp'.consumed = resp.consumed
        /\ resp'.sourceCancels <= 1
        /\ ops'[Len(ops')].phase \in {"done", "cancel"} ]_vars

C17_Witness ==
  /\ Len(ops) = 3
  /\ ops[1].op = "dispose" /\ ops[1].phase = "done"
  /\ ops[2].op = "dispose" /\ ops[2].phase = "done"
  /\ ops[3].op = "dispose" /\ ops[3].phase = "done"
  /\ resp.cancelCalls = 3
  /\ resp.sourceCancels = 1

\* C18: handleChallenge takes the V2 path exactly when the challenge starts
\* with "2$", and the V1 path for every other challenge, the empty one and
\* those with a "$" elsewhere included.
C18_DispatchOnPrefix ==
  hOut # NotSettled =>
    LET challenge == hIn.challenge
        prefixed == Len(challenge) >= 2 /\ challenge[1] = "2" /\ challenge[2] = "$"
    IN /\ prefixed => hOut[1].path = "V2"
       /\ ~prefixed => /\ hOut[1].path = "V1"
                       /\ hOut[1].kind = "value"

C18_Witness ==
  /\ hOut # NotSettled
  /\ hIn.challenge # << >>
  /\ hIn.challenge[1] # "2"
  /\ Len(Split(hIn.challenge, "$")) = 5
  /\ hOut[1].path = "V1"
  /\ hOut[1].kind = "value"

\* C19: a challenge that starts with "2$" and does not split on "$" into
\* exactly 5 fields makes handleChallenge fail; no response string is
\* returned.
C19_FieldCountChecked ==
  ( /\ hOut # NotSettled
    /\ StartsWith(hIn.challenge, <<"2", "$">>)
    /\ Len(Split(hIn.challenge, "$")) # 5 )
  => hOut[1].kind = "error"

\* text that Uint8Array.fromHex must not decode
BadHex(text) ==
  \/ Len(text) % 2 = 1
  \/ \E i \in 1..Len(text) : ~IsHexChar(text[i])

\* C20: on the V2 path a salt field of odd length or with a character that
\* is not a hex digit makes handleChallenge fail; no response string is
\* made from a partially decoded salt.
C20_SaltMustBeHex ==
  ( /\ hOut # NotSettled
    /\ hOut[1].path = "V2"
    /\ \E i \in {3, 5} :
         /\ i <= Len(Split(hIn.challenge, "$"))
         /\ BadHex(Split(hIn.challenge, "$")[i]) )
  => /\ hOut[1].kind = "error"
     /\ hOut[1].text = << >>

C20_Witness ==
  /\ hOut # NotSettled
  /\ hOut[1].path = "V2"
  /\ Len(Split(hIn.challenge, "$")) = 5
  /\ ~BadHex(Split(hIn.challenge, "$")[3])
  /\ ~ParseInt(Defined(Split(hIn.challenge, "$")[2])).nan
  /\ ParseInt(Defined(Split(hIn.challenge, "$")[2])).value > 0
  /\ Len(Split(hIn.challenge, "$")[5]) % 2 = 1
  /\ hOut[1].kind = "error"
  /\ hOut[1].name = "SyntaxError"

\* the test vectors of the challenge-response algorithm
V1Challenge == <<"1", "2", "3", "4", "5", "6", "7", "z">>
V1Password == <<ADiaeresis, "b", "c">>
V1Expected ==
  <<"1", "2", "3", "4", "5", "6", "7", "z", "-", "9", "e", "2", "2", "4",
    "a", "4", "1", "e", "e", "e", "f", "a", "2", "8", "4", "d", "f", "7",
    "b", "b", "0", "f", "2", "6", "c", "2", "9", "1", "3", "e", "2">>
V2Challenge ==
  <<"2", "$", "1", "0", "0", "0", "0", "$", "5", "A", "1", "7", "1", "1",
    "$", "2", "0", "0", "0", "$", "5", "A", "1", "7", "2", "2">>
V2Password == <<"1", "e", "x", "a", "m", "p", "l", "e", "!">>
V2Expected ==
  <<"5", "A", "1", "7", "2", "2", "$", "1", "7", "9", "8", "a", "1", "6",
    "7", "2", "b", "c", "a", "7", "c", "6", "4", "6", "3", "d", "6", "b",
    "2", "4", "5", "f", "8", "2", "b", "5", "3", "7", "0", "3", "b", "0",
    "f", "5", "0", "8", "1", "3", "4", "0", "1", "b", "0", "3", "e", "4",
    "0", "4", "5", "a", "5", "8", "6", "1", "e", "6", "8", "9", "a", "d",
    "b">>

\* UTF-16 little-endian, 2 bytes per code unit, no byte-order mark
Utf16LittleEndian(text) ==
  [i \in 1..(2 * Len(text)) |->
     IF i % 2 = 1 THEN CharCodeAt(text[(i + 1) \div 2]) % 256
                  ELSE CharCodeAt(text[i \div 2]) \div 256]

V1ResponseAsSpecified ==
  /\ hOut[1].kind = "value"
  /\ hOut[1].text = hIn.challenge \o <<"-">>
                      \o ToHex(Md5(Utf16LittleEndian(hIn.challenge \o <<"-">> \o hIn.password)))
  /\ (hIn.challenge = V1Challenge /\ hIn.password = V1Password) => hOut[1].text = V1Expected

\* C21: for every V1 challenge c and password p, handleChallenge returns
\* c + "-" + the lower-case hex of MD5 over c + "-" + p encoded as UTF-16
\* little-endian (2 bytes per code unit, no byte-order mark); for "1234567z"
\* and "a-diaeresis bc" that is 1234567z-9e224a41eeefa284df7bb0f26c2913e2.
C21_V1ResponseOverUtf16Le ==
  (hOut # NotSettled /\ ~StartsWith(hIn.challenge, <<"2", "$">>)) => V1ResponseAsSpecified

\* the same on a host whose typed arrays are little-endian
V1ResponseOnLittleEndianHost ==
  (hOut # NotSettled /\ ~StartsWith(hIn.challenge, <<"2", "$">>) /\ hIn.host = "little")
  => V1ResponseAsSpecified

\* a string of decimal digits that reads as a positive integer
IsIterationCount(text) ==
  /\ text # << >>
  /\ \A i \in 1..Len(text) : IsIn(DecimalDigits, text[i])
  /\ DecimalValue(text) >= 1

\* "2$iter1$salt1$iter2$salt2" with decimal iteration counts and
\* hex-encoded salts
WellFormedV2(challenge) ==
  LET fields == Split(challenge, "$")
  IN /\ Len(fields) = 5
     /\ fields[1] = <<"2">>
     /\ IsIterationCount(fields[2]) /\ IsIterationCount(fields[4])
     /\ ~BadHex(fields[3]) /\ ~BadHex(fields[5])

\* PBKDF2-HMAC-SHA256 of 32 bytes
Derive(value, salt, count) == Pbkdf2(value, salt, [nan |-> FALSE, value |-> count]).bits

\* C22: for every well-formed V2 challenge "2$iter1$salt1$iter2$salt2" and
\* password p, handleChallenge returns salt2 as given + "$" + the
\* lower-case hex of PBKDF2(PBKDF2(utf8(p), salt1, iter1), salt2, iter2),
\* both passes HMAC-SHA256 with 32 bytes of output; for
\* "2$10000$5A1711$2000$5A1722" and "1example!" that is
\* 5A1722$1798a1672bca7c6463d6b245f82b53703b0f50813401b03e4045a5861e689adb.
C22_V2ResponseIsTwoPasses ==
  (hOut # NotSettled /\ WellFormedV2(hIn.challenge)) =>
    LET fields == Split(hIn.challenge, "$")
        hash1 == Derive(Known(Utf8(hIn.password)), HexBytes(fields[3]), DecimalValue(fields[2]))
        hash2 == Derive(hash1, HexBytes(fields[5]), DecimalValue(fields[4]))
    IN /\ hOut[1].kind = "value"
       /\ hOut[1].text = fields[5] \o <<"$">> \o ToHex(hash2)
       /\ (hIn.challenge = V2Challenge /\ hIn.password = V2Password) => hOut[1].text = V2Expected

C22_Witness ==
  /\ hOut # NotSettled
  /\ hIn.challenge = V2Challenge
  /\ hIn.password = V2Password
  /\ hOut[1].path = "V2"
  /\ hOut[1].text = V2Expected

\* the stages named in a trace of entries and returns
StagesIn(trace) == {trace[i][2] : i \in 1..Len(trace)}

\* C23: client.use(m) returns a new client and leaves the receiver as it
\* was: a request or a dispose on client c invokes no middleware attached
\* above c, while on the new client the first thing a request runs is
\* m.request, whose next is the transport call of the client below and
\* whose base client is that client.
C23_UseReturnsNewClient ==
  /\ \A r \in 1..Len(reqs) :
       LET c == reqs[r].client
           trace == reqs[r].trace
       IN /\ \A k \in StagesIn(trace) : k <= c
          /\ trace # << >> => trace[1] = <<"in", c>>
          /\ (Len(trace) >= 2 /\ trace[2][1] = "in") => trace[2] = <<"in", c - 1>>
          /\ \A k \in Stages : (k > c /\ Kind(k) = "mw") => ~SPHas(reqs[r].req.query, MwKeys[k])
          /\ c < AuthStage =>
               /\ ~reqs[r].login
               /\ ~SPHas(reqs[r].req.query, "sid")
               /\ \A i \in 1..Len(loginLog) : loginLog[i].req # r
  /\ \A d \in 1..Len(disps) : \A k \in SeqSet(disps[d].hooks) : k <= disps[d].client
  /\ \A i \in 1..Len(loginLog) : loginLog[i].client = AuthStage - 1
  /\ \A i \in 1..Len(logoutLog) : logoutLog[i].client = AuthStage - 1

C23_Witness ==
  /\ session # NoSession
  /\ \E r, q \in 1..Len(reqs) :
       /\ reqs[r].client = NumStages /\ reqs[r].phase = "done" /\ reqs[r].login
       /\ q > r
       /\ reqs[q].client = AuthStage - 1 /\ reqs[q].phase = "done"
       /\ StagesIn(reqs[q].trace) = 0..(AuthStage - 1)
  /\ \E d \in 1..Len(disps) :
       /\ disps[d].client = AuthStage
       /\ disps[d].hooks # << >>
       /\ NumStages \notin SeqSet(disps[d].hooks)

\* how often request r has called the executeRequest of the innermost client
TransportCalls(r) ==
  Cardinality({i \in 1..Len(reqs[r].trace) : reqs[r].trace[i] = <<"in", 0>>})

\* C24: a client made by createTestClient passes every request() to the
\* handler, exactly once a call, as FritzClient.request built it: no
\* middleware is applied and the network transport is not called.
C24_TestClientCallsHandler ==
  \A r \in 1..Len(reqs) :
    (base = "createTestClient" /\ reqs[r].client = 0) =>
      /\ reqs[r].executor = "handler"
      /\ TransportCalls(r) = 1
      /\ StagesIn(reqs[r].trace) = {0}
      /\ reqs[r].req = BuildRequest(reqs[r].call.endpoint, reqs[r].call.payload)

C24_Witness ==
  /\ base = "createTestClient"
  /\ \E r, q \in 1..Len(reqs) :
       /\ reqs[r].client = 0 /\ reqs[r].phase = "done" /\ reqs[r].executor = "handler"
       /\ reqs[q].client = 0 /\ reqs[q].phase = "failed" /\ reqs[q].executor = "handler"
       /\ reqs[r].call # reqs[q].call

\* C25: the core never retries: a request() call invokes the transport at
\* most once, whether the exchange succeeds, returns a non-success status
\* or throws; a settled call stays as it settled, and a transport failure
\* is the failure of the call.
C25_NoRetry ==
  [][\A r \in 1..Len(reqs') :
       /\ Cardinality({i \in 1..Len(reqs'[r].trace) : reqs'[r].trace[i] = <<"in", 0>>}) <= 1
       /\ r <= Len(reqs) =>
            /\ Settled(r) => reqs'[r] = reqs[r]
            /\ (reqs[r].phase = "transport" /\ reqs'[r] # reqs[r]) =>
                 \/ /\ reqs'[r].phase = "done"
                    /\ reqs'[r].status \in {200} \cup NonSuccess
                    /\ reqs'[r].error = "none"
                 \/ /\ reqs'[r].phase = "failed"
                    /\ reqs'[r].status = 0
                    /\ reqs'[r].error = "network"
    ]_vars

C25_Witness ==
  \E r, q, s \in 1..Len(reqs) :
    /\ reqs[r].phase = "done" /\ reqs[r].status = 200 /\ TransportCalls(r) = 1
    /\ reqs[q].phase = "done" /\ reqs[q].status \in NonSuccess /\ TransportCalls(q) = 1
    /\ reqs[s].phase = "failed" /\ reqs[s].error = "network" /\ TransportCalls(s) = 1
    /\ reqs[s].client > 0

LoginPending == \E i \in 1..Len(loginLog) : loginLog[i].result = "pending"

\* C26: a request() started on the auth-wrapped client while the login of
\* an earlier request is pending and no login has completed finds no
\* session and invokes handler.login itself: with two first requests
\* started before either login has completed, handler.login is invoked
\* twice.
C26_ConcurrentFirstRequestsLoginTwice ==
  [][( /\ Len(reqs') = Len(reqs) + 1
       /\ reqs'[Len(reqs')].client >= AuthStage
       /\ LoginPending
       /\ \A i \in 1..Len(loginLog) : ~LoginResolved(i) )
     => /\ session = NoSession
        /\ reqs'[Len(reqs')].phase = "login"
        /\ Len(loginLog') = Len(loginLog) + 1
        /\ loginLog'[Len(loginLog')] = [req |-> Len(reqs'), client |-> AuthStage - 1,
                                        result |-> "pending"]
    ]_vars

C26_Witness ==
  \E r, q \in AuthReqs :
    /\ r # q
    /\ reqs[r].login /\ reqs[q].login
    /\ Len(loginLog) = 2
    /\ loginLog[1].result = "pending"
    /\ loginLog[2].result = "pending"

IsReturn(e) == e[1] = "out"

\* the stages request r has returned through, in order
Returned(r) ==
  LET outs == SelectSeq(reqs[r].trace, IsReturn)
  IN [i \in 1..Len(outs) |-> outs[i][2]]

\* C27: a request through a chain of N middleware enters the stages in
\* nesting order, outermost first, and its response (or failure) returns
\* through the stages entered in the reverse order, innermost first; with
\* several requests in flight each request keeps this order.
C27_ReturnInnermostFirst ==
  \A r \in 1..Len(reqs) :
    LET c == reqs[r].client
        ins == Entered(r)
        outs == Returned(r)
    IN /\ reqs[r].trace = SelectSeq(reqs[r].trace, IsEntry) \o SelectSeq(reqs[r].trace, IsReturn)
       /\ ins = Descending(c, Len(ins))
       /\ \A i \in 1..Len(outs) : outs[i] = ins[Len(ins) - i + 1]
       /\ InFlight(r) => outs = << >>
       /\ Settled(r) => Len(outs) = Len(ins)

C27_Witness ==
  \E r, q \in 1..Len(reqs) :
    /\ r < q
    /\ reqs[r].client = NumStages /\ reqs[q].client = NumStages
    /\ reqs[r].phase = "transport"
    /\ Entered(r) = Descending(NumStages, NumStages + 1)
    /\ reqs[q].phase = "done"
    /\ Returned(q) = [i \in 1..(NumStages + 1) |-> i - 1]

LogoutSettled == ops # << >> /\ ops[1].phase \in {"done", "failed"}

\* C28: when the logout exchange returns a non-success status,
\* UserPassword.logout fails with the request-failed FritzError, which so
\* reaches its caller (the dispose of the auth-wrapped client).
C28_LogoutFailureReachesCaller ==
  (LogoutSettled /\ resp.present /\ ~ResponseOk(resp)) =>
    /\ ops[1].phase = "failed"
    /\ ops[1].result.name = "FritzError"

\* rawData() and data() calls
DataCalls(calls) == {i \in 1..Len(calls) : calls[i].op \in {"rawData", "data"}}

\* call i starts to read the body for its own result in this step
StartsDecoding(i) ==
  /\ i \in 1..Len(ops')
  /\ ops'[i].phase = "read"
  /\ ~ops'[i].forError
  /\ i \in 1..Len(ops) => ops[i].phase # "read"

\* C29: with options.throwOnError = false, rawData() and data() do not
\* fail because of a non-success status: the body is decoded by content
\* type and, for data(), validated; with throwOnError absent or true the
\* status check runs before any decoding, and a non-success status is the
\* failure of the call.
C29_ThrowOnErrorOption ==
  [][\A i \in DataCalls(ops') :
       LET call == ops'[i]
       IN IF call.throwOnError
            THEN /\ StartsDecoding(i) =>
                      /\ ResponseOk(resp')
                      /\ i \in 1..Len(ops)
                      /\ ops[i].phase = "check"
                 /\ ~ResponseOk(resp') =>
                      /\ call.phase # "check"
                      /\ call.phase = "read" => call.forError
                      /\ call.result.kind # "value"
            ELSE /\ ~call.forError
                 /\ call.phase # "check"
                 /\ call.phase = "failed" => call.result.name # "FritzError"
                 /\ call.phase \in {"read", "done"} => call.decoder = SelectDecoder(resp'.header, EnvelopeLocale)
                 /\ call.phase = "done" =>
                      /\ call.result.kind = "value"
                      /\ call.result.from = call.decoder
                      /\ call.op = "data" => Accepts(resp'.schema, call.result)
    ]_vars

C29_Witness ==
  /\ resp.present
  /\ ~ResponseOk(resp)
  /\ \E i, j \in DataCalls(ops) :
       /\ ops[i].op = "data" /\ ~ops[i].throwOnError
       /\ ops[i].phase = "done" /\ ops[i].result.from = "json"
       /\ ops[j].throwOnError
       /\ ops[j].phase = "failed"

\* the field of the level control the getter read reports
Reported ==
  LET control == dIn.info.levelcontrol
  IN IF ~control.present THEN JsUndefined
     ELSE IF dIn.getter = "level" THEN control.level
     ELSE control.levelpercentage

\* C30: SmartHomeDeviceState.level returns the reported level for every
\* reported value in 0..255, and undefined only when the device state has
\* no level; the same holds for levelPercent over 0..100.
C30_LevelReportedAsIs ==
  dOut # NotRead =>
    IF Reported.type = "number" THEN dOut[1] = Reported ELSE dOut[1] = JsUndefined

\* the same for the values 1..max
LevelReportedWhenPositive ==
  (dOut # NotRead /\ Reported # JsNumber(0)) =>
    IF Reported.type = "number" THEN dOut[1] = Reported ELSE dOut[1] = JsUndefined

\* every request was made before the first dispose was invoked
RequestsBeforeDisposes ==
  \A r \in 1..Len(reqs), d \in 1..Len(disps) : At("request", r) < At("dispose", d)

\* C31: once dispose of an auth-wrapped client has completed and every
\* request that was in flight has settled, the middleware holds no session
\* and every session handler.login returned has been passed to
\* handler.logout, also when dispose was invoked while the login of a first
\* request was pending.  (Stated for requests made before the dispose.)
C31_NoSessionOutlivesDispose ==
  ( /\ disps # << >>
    /\ \A d \in 1..Len(disps) : disps[d].state = "done"
    /\ \A r \in 1..Len(reqs) : Settled(r)
    /\ RequestsBeforeDisposes )
  => /\ session = NoSession
     /\ LiveSessions = {}

\* the sids handler.logout has been invoked with
SidsLoggedOut == {logoutLog[i].sid : i \in 1..Len(logoutLog)}

\* C32: auth forwards no request carrying a sid that handler.logout has
\* already been invoked with, requests started while the logout call of a
\* dispose is pending included.
C32_NoRequestWithLoggedOutSid ==
  [][\A r \in 1..MaxCalls :
       NewlyForwarded(r) => SPGet(reqs'[r].fwd[1].query, "sid") \notin SidsLoggedOut]_vars

\* the step in which the login request r waits for is rejected
LoginFails(r) ==
  /\ r \in 1..Len(reqs)
  /\ reqs[r].phase = "login"
  /\ loginLog'[LoginIndex(r)].result = "error"

\* request r is started on an auth-wrapped client, the request made before
\* it having failed with the login error
StartsAfterFailedLogin(r) ==
  /\ r = Len(reqs) + 1
  /\ r > 1
  /\ Len(reqs') = r
  /\ reqs'[r].client >= AuthStage
  /\ reqs[r - 1].error = "login"

\* C33: when handler.login fails during a request through an auth-wrapped
\* client, the request fails with the login error, no stage below auth is
\* ever entered for it, the stored session stays absent, and the next
\* request invokes handler.login again.
C33_FailedLoginFailsRequest ==
  [][\A r \in 1..MaxCalls :
       /\ LoginFails(r) =>
            /\ reqs'[r].phase = "failed"
            /\ reqs'[r].error = "login"
            /\ reqs'[r].fwd = << >>
            /\ \A i \in 1..Len(reqs'[r].trace) :
                 reqs'[r].trace[i][1] = "in" => reqs'[r].trace[i][2] >= AuthStage
            /\ session = NoSession
            /\ session' = NoSession
       /\ StartsAfterFailedLogin(r) =>
            /\ reqs'[r].login
            /\ loginLog' = Append(loginLog, [req |-> r, client |-> AuthStage - 1,
                                             result |-> "pending"])]_vars

C33_Witness ==
  /\ Len(reqs) >= 2
  /\ reqs[1].phase = "failed"
  /\ reqs[1].error = "login"
  /\ reqs[1].fwd = << >>
  /\ reqs[2].login
  /\ Len(loginLog) = 2
  /\ LoginResolved(2)
  /\ Forwarded(2)

\* the step in which the handler.logout that dispose d awaits is rejected
LogoutFails(d) ==
  /\ d \in 1..Len(disps)
  /\ disps[d].state = "pending"
  /\ disps[d].await = "logout"
  /\ disps'[d].state = "failed"

\* dispose d failed in auth.dispose, that is, in handler.logout
FailedInLogout(d) ==
  /\ disps[d].state = "failed"
  /\ disps[d].stage = AuthStage
  /\ HeldSession(d)

\* the call made right after dispose d is the n-th call of that kind
NextCallIs(d, kind, n) ==
  /\ At("dispose", d) < Len(order)
  /\ order[At("dispose", d) + 1] = <<kind, n>>

\* C34: when handler.logout fails during dispose of an auth-wrapped client,
\* the stored session is left as it was and the dispose fails with the
\* logout error, the disposes below auth not being called; a dispose made
\* after it offers the same session to handler.logout again, and a request
\* made after it is forwarded with that session's sid, without a login.
C34_FailedLogoutKeepsSession ==
  /\ [][\A d \in 1..MaxCalls :
          LogoutFails(d) =>
            /\ session' = session
            /\ session = SidLoggedOut(d)
            /\ disps'[d].hooks = disps[d].hooks
            /\ disps'[d].stage = AuthStage]_vars
  /\ [](\A d \in 1..Len(disps) :
          FailedInLogout(d) =>
            /\ 0 \notin SeqSet(disps[d].hooks)
            /\ \A d2 \in 1..Len(disps) :
                 NextCallIs(d, "dispose", d2) /\ AuthStage \in SeqSet(disps[d2].hooks) =>
                   /\ HeldSession(d2)
                   /\ SidLoggedOut(d2) = SidLoggedOut(d)
            /\ \A r \in 1..Len(reqs) :
                 NextCallIs(d, "request", r) /\ reqs[r].client >= AuthStage =>
                   /\ ~reqs[r].login
                   /\ Forwarded(r)
                   /\ SidSent(r) = SidLoggedOut(d))

C34_Witness ==
  /\ Len(disps) = 2
  /\ FailedInLogout(1)
  /\ NextCallIs(1, "dispose", 2)
  /\ HeldSession(2)
  /\ SidLoggedOut(2) = SidLoggedOut(1)
  /\ session = SidLoggedOut(1)

\* request r is started on the client handed to handler.login and
\* handler.logout, as the exchanges of the handler are
StartsOnHandlerClient(r) ==
  /\ r = Len(reqs) + 1
  /\ Len(reqs') = r
  /\ reqs'[r].client = AuthStage - 1

\* C35: the login and logout exchanges of the auth middleware are made
\* through the client auth was attached to: a request on that client runs
\* the middleware attached before auth and reaches the transport at once,
\* without entering auth or a middleware attached after it, so it causes no
\* login (none nested in a pending one either) and carries no injected sid.
C35_HandlerExchangesBelowAuth ==
  /\ [](/\ \A i \in 1..Len(loginLog) : loginLog[i].client < AuthStage
        /\ \A i \in 1..Len(logoutLog) : logoutLog[i].client < AuthStage
        /\ \A i \in 1..Len(loginLog) : reqs[loginLog[i].req].client >= AuthStage)
  /\ [][\A r \in 1..MaxCalls :
          StartsOnHandlerClient(r) =>
            /\ loginLog' = loginLog
            /\ session' = session
            /\ reqs'[r].phase = "transport"
            /\ ~reqs'[r].login
            /\ reqs'[r].fwd = << >>
            /\ Entered(r)' = Descending(AuthStage - 1, AuthStage)
            /\ ~SPHas(reqs'[r].req.query, "sid")
            /\ \A k \in 1..NumStages :
                 SPHas(reqs'[r].req.query, MwKeys[k]) <=> (k < AuthStage /\ Kind(k) = "mw")]_vars

\* a request on the handler's client is at the transport while the login
\* of a request through auth is pending
C35_Witness ==
  \E r, q \in 1..Len(reqs) :
    /\ reqs[r].phase = "login"
    /\ q > r
    /\ reqs[q].client = AuthStage - 1
    /\ reqs[q].phase = "transport"
    /\ Len(loginLog) = 1

\* C36: after auth.request has processed a request, the URL has exactly one
\* query parameter sid and it is the session's sid, also when the endpoint
\* path or a GET payload had supplied a sid (replaced, not duplicated); a
\* form body with a sid field likewise has its value replaced.  Everything
\* else of the request is as request() built it.
C36_ExactlyOneSid ==
  Len(bOut) = 2 =>
    LET built == bOut[1]
        sent == bOut[2]
    IN /\ SPCount(sent.query, "sid") = 1
       /\ SPGet(sent.query, "sid") = session
       /\ SPDelete(sent.query, "sid") = SPDelete(built.query, "sid")
       /\ sent.method = built.method
       /\ sent.body.present = built.body.present
       /\ built.body.present =>
            /\ SPCount(sent.body.fields, "sid") = 1
            /\ SPGet(sent.body.fields, "sid") = session
            /\ SPDelete(sent.body.fields, "sid") = SPDelete(built.body.fields, "sid")

\* the endpoint path and the GET payload both supplied a sid
C36_Witness ==
  /\ Len(bOut) = 2
  /\ SPHas(bIn.endpoint.query, "sid")
  /\ SPCount(bOut[1].query, "sid") = 2
  /\ SPValues(bOut[1].query, "sid") = {"old"}
  /\ SPCount(bOut[2].query, "sid") = 1

\* a challenge of the "2$" form that does not split into exactly five
\* fields, or has a salt that is not hex
Malformed(challenge) ==
  LET fields == Split(challenge, "$")
  IN /\ IsV2(challenge)
     /\ \/ Len(fields) # 5
        \/ BadHex(fields[3])
        \/ BadHex(fields[5])

\* the exchanges login has sent are a body-less GET for the challenge and,
\* after it, a POST with the username and the response to that challenge
ExchangesInOrder ==
  /\ Len(lOut.sent) \in {1, 2}
  /\ lOut.sent[1] = [query |-> RequestSid.query, method |-> "GET", body |-> NoBody]
  /\ Len(lOut.sent) = 2 =>
       LET second == lOut.sent[2]
           answer == HandleChallenge(hIn.challenge, hIn.password)
       IN /\ DataOf(lIn.first).ok
          /\ second.method = "POST"
          /\ second.query = LoginSid.query
          /\ second.body.present
          /\ answer.kind = "value"
          /\ second.body.fields = <<<<"username", lIn.username>>, <<"response", ToString(answer.text)>>>>

\* C37: UserPassword.login performs exactly two exchanges in order, a
\* body-less GET that fetches the challenge and then a POST with the
\* username and the response computed from that challenge, and returns the
\* sessionInfo of the second; when the first exchange fails (status not
\* 2xx, schema mismatch) or the challenge is malformed, the second exchange
\* is never sent.
C37_LoginIsTwoExchanges ==
  lOut.pc # "idle" =>
    /\ ExchangesInOrder
    /\ lOut.pc = "done" =>
         /\ Len(lOut.sent) = 2
         /\ DataOf(lIn.second).ok
         /\ lOut.result = <<SessionInfoOf(2, hIn.challenge)>>
    /\ (~DataOf(lIn.first).ok \/ Malformed(hIn.challenge)) => Len(lOut.sent) = 1

\* C38: throwOnError() on a response with a non-success status always
\* fails with a FritzError, also when the body cannot be decoded as its
\* Content-Type declares; no other error escapes.  (Stated for the first
\* call on a response whose body nobody has claimed and whose transfer
\* does not fail.)
C38_ThrowOnErrorThrowsFritzError ==
  ( /\ Len(ops) >= 1
    /\ ops[1].op = "throwOnError"
    /\ ops[1].phase \in {"done", "failed"}
    /\ ~ResponseOk(resp)
    /\ ~resp.claimed
    /\ ops[1].result # ReadError )
  => /\ ops[1].phase = "failed"
     /\ ops[1].result.name = "FritzError"

\* the feature bit the method called requires
RequiredBit ==
  IF kIn.method \in {"turnOn", "turnOff"} THEN 15
  ELSE IF kIn.method \in {"setLevel", "setLevelPercent"} THEN 16
  ELSE 17

HasRequiredBit == (kIn.features \div 2^RequiredBit) % 2 = 1

\* x is a number of low..high
Within(x, low, high) == ~x[1].nan /\ x[1].value \in low..high

\* the numeric argument of the call is inside its documented range
ArgumentInRange ==
  IF kIn.method \in {"turnOn", "turnOff"} THEN TRUE
  ELSE IF kIn.method = "setLevel" THEN Within(kIn.argument.number, 0, 255)
  ELSE IF kIn.method = "setLevelPercent" THEN Within(kIn.argument.number, 0, 100)
  ELSE IF kIn.argument.type = "number" THEN Within(kIn.argument.number, 2700, 6500)
  ELSE Within(kIn.argument.hue, 0, 359) /\ Within(kIn.argument.saturation, 0, 255)

\* C39: turnOn, turnOff, setLevel, setLevelPercent and setColor fail without
\* issuing a request when the function bitmask lacks the required feature
\* bit or the numeric argument is outside its documented range (level
\* 0..255, percent 0..100, temperature 2700..6500, hue 0..359, saturation
\* 0..255); otherwise exactly one request is issued.
C39_CommandsCheckedBeforeRequest ==
  kOut.pc # "idle" =>
    IF HasRequiredBit /\ ArgumentInRange
      THEN Len(kOut.sent) = 1
      ELSE kOut.pc = "failed" /\ kOut.sent = << >>

====
